---- MODULE Spec2Model ----
(***************************************************************************)
(* Live display / update engine of the MCS8 control application            *)
(* (src/plot_display.py): MCSDisplay, EfficientUpdateMixin and the         *)
(* EfficientMCSDisplay class built by extend_mcs_display().                *)
(*                                                                         *)
(* Numbers.  Sample counts are integers.  Axis limits are kept in          *)
(* hundredths (Scale), intervals in milliseconds.  A mean is the pair      *)
(* (sum, n) and a standard deviation the pair (varnum, n) with             *)
(* std = sqrt(varnum) / n, varnum = n * sum(x^2) - sum(x)^2, so that the   *)
(* relative comparisons of the code are decided exactly by cross           *)
(* multiplication.  Only the adaptive margin needs the value of a square   *)
(* root; it is rounded down to a hundredth.                                *)
(***************************************************************************)
EXTENDS Integers, Sequences, FiniteSets, Bags, TLC

VARIABLES
    device,                 \* the instrument: per channel slot, xdim and the block of counts
    channel_states,         \* self.channel_states: channel -> ChannelState
    lines,                  \* self.lines: channel -> y data of the line
    images,                 \* self.images: channel -> data of the image
    axes,                   \* self.axes: channel -> [xlim, ylim]
    channel_cache,          \* self.channel_cache: channel -> cached 1D data
    active_channels_cache,  \* self.active_channels_cache
    ui_queue,               \* callbacks posted with tab_display.after_idle, FIFO
    update_running,         \* self.update_running
    update_stop_event,      \* self.update_stop_event (the flag of the Event)
    threads,                \* the live _update_loop threads: a bag of [pc, locals]
    cycle,                  \* the locals of the last _check_and_update_channels call
    call,                   \* the arguments and result of the last classify / planner / build call
    budget,                 \* [polls, writes]: poll cycles (or calls) and device changes left in this run
    now,                    \* time.time(), in milliseconds
    last_update_time        \* self.last_update_time, in milliseconds

vars == <<device, channel_states, lines, images, axes, channel_cache,
          active_channels_cache, ui_queue, update_running, update_stop_event,
          threads, cycle, call, budget, now, last_update_time>>

----------------------------------------------------------------------------
(* Bounds of the model *)

MaxLen == 2          \* longest block of counts in the classify / planner runs
MaxXdim == 1         \* largest row width in the classify runs
MaxQueue == 2        \* callbacks pending in the UI queue
MaxThreads == 2      \* _update_loop threads alive at once
MaxPolls == 2        \* poll cycles of a run of the whole display
MaxWrites == 1       \* device changes of a run of the whole display
MaxLoopPolls == 40   \* poll cycles of a run of the polling loop
MaxLoopWrites == 1   \* device changes of a run of the polling loop
MaxCalls == 3        \* classify calls of a run of the change detector
MaxAxisCalls == 6    \* updates of a run of the axis planner
MaxTicks == 3        \* clock steps of a run of update_plot
MaxPlotCalls == 2    \* update_plot calls of a run of update_plot
MaxPlotWrites == 1   \* device changes of a run of update_plot
MaxReadLen == 5      \* longest block (range) in the runs of _get_channel_data
MaxReadXdim == 5     \* largest row width in the runs of _get_channel_data
MaxRebuildPolls == 3 \* poll cycles of a run of the scheduler around a posted rebuild
MaxRebuildWrites == 1 \* device changes of a run of the scheduler around a posted rebuild

\* the counts a sample may hold
Samples == {0, 1, 5, 20}

\* the channel slots polled (the code polls range(16))
Channels == {0, 1, 2}

----------------------------------------------------------------------------
(* Program constants *)

Scale == 10 * 10            \* limits are in hundredths

StabilityFrames == 5
ChangeThresholdPct == 1     \* change_threshold = 0.01
YStabilityThresholdPct == 1 \* axis_scaling['y_stability_threshold'] = 0.01
YMarginFactorPct == 5       \* axis_scaling['y_margin_factor'] = 0.05
BaseInterval == 100         \* adaptive_update_interval = 0.1 s, in ms
UpdateInterval == 100       \* update_interval = 0.1 s (the rate limit of update_plot)
MaxInterval == 2000         \* max_update_interval = 2.0 s
MinInterval == 300          \* min_update_interval = 0.3 s

----------------------------------------------------------------------------
(* Arithmetic helpers *)

Abs(x) == IF x < 0 THEN -x ELSE x
Min2(a, b) == IF a <= b THEN a ELSE b
Max2(a, b) == IF a >= b THEN a ELSE b

RECURSIVE SeqSum(_)
SeqSum(s) == IF s = <<>> THEN 0 ELSE Head(s) + SeqSum(Tail(s))

RECURSIVE SeqSumSq(_)
SeqSumSq(s) == IF s = <<>> THEN 0 ELSE Head(s) * Head(s) + SeqSumSq(Tail(s))

SeqMin(s) == CHOOSE x \in {s[i] : i \in 1..Len(s)} : \A j \in 1..Len(s) : x <= s[j]

SeqMax(s) == CHOOSE x \in {s[i] : i \in 1..Len(s)} : \A j \in 1..Len(s) : x >= s[j]

RECURSIVE ISqrtIter(_, _, _)
ISqrtIter(x, lo, hi) ==
    IF lo >= hi THEN lo
    ELSE LET mid == (lo + hi + 1) \div 2
         IN IF mid * mid <= x THEN ISqrtIter(x, mid, hi)
                              ELSE ISqrtIter(x, lo, mid - 1)

\* floor of the square root
ISqrt(x) == ISqrtIter(x, 0, Min2(x, 46340))

\* all sequences over S of length 1..n
SeqsUpTo(S, n) == UNION {[1..k -> S] : k \in 1..n}

----------------------------------------------------------------------------
(* Readings: MCSDisplay._get_channel_data *)

\* a device slot: the acquisition setting xdim and the block get_block(0, range)
\* returns; range is the length of the block
DeviceConfigs == [xdim : 0..MaxXdim, data : SeqsUpTo(Samples, MaxLen)]

\* np.any(data_array != 0)
AnyNonZero(data) == \E i \in 1..Len(data) : data[i] # 0

\* data_array.reshape((ydim, -1)) raises unless ydim > 0 divides the size
ReshapeOk(range_val, xdim) ==
    LET ydim == range_val \div xdim
    IN ydim > 0 /\ range_val % ydim = 0

\* the body of the loop over the 16 slots, for one slot:
\* the reading [shape, data, is2d] of an active channel, or "none"
NoReading == [shape |-> <<>>, data |-> <<>>, is2d |-> FALSE, active |-> FALSE]

ReadChannel(cfg) ==
    LET range_val == Len(cfg.data)
    IN IF ~AnyNonZero(cfg.data) THEN NoReading
       ELSE IF cfg.xdim > 0
            THEN IF ReshapeOk(range_val, cfg.xdim)
                 THEN LET ydim == range_val \div cfg.xdim
                      IN [shape |-> <<ydim, range_val \div ydim>>, data |-> cfg.data,
                          is2d |-> TRUE, active |-> TRUE]
                 ELSE NoReading      \* the exception is caught, the slot skipped
            ELSE [shape |-> <<range_val>>, data |-> cfg.data,
                  is2d |-> FALSE, active |-> TRUE]

\* active_channels, channel_data and is2d of _get_channel_data
GetChannelData(dev) == [c \in Channels |-> ReadChannel(dev[c])]
ActiveChannels(readings) == {c \in Channels : readings[c].active}

\* "if data.ndim > 1 and data.shape[0] == 1: data = data[0]"
Squeeze(reading) ==
    IF Len(reading.shape) > 1 /\ reading.shape[1] = 1
    THEN [reading EXCEPT !.shape = Tail(reading.shape)]
    ELSE reading

----------------------------------------------------------------------------
(* ChannelState and the change detector *)

\* hashlib.md5(data.tobytes()).hexdigest(): a digest of the flat bytes alone
\* (the shape is not hashed); never the empty string
Md5(data) == <<Len(data)>> \o data
EmptyHash == <<>>

\* (min, max, mean, std) as <<min, max, sum, n, varnum>>
Stats(data) ==
    LET n == Len(data)
        s == SeqSum(data)
    IN <<SeqMin(data), SeqMax(data), s, n, n * SeqSumSq(data) - s * s>>

\* the dataclass defaults
DefaultChannelState ==
    [data_hash |-> EmptyHash,
     shape |-> <<>>,
     data_range |-> <<0, 0>>,
     statistical_signature |-> <<0, 0, 0, 1, 0>>,
     x_limits |-> <<0, 1>>,
     y_limits |-> <<0, Scale>>,
     update_count |-> 0]

\* the settings configure_efficient_updates can change, in percent:
\* self.change_threshold and self.axis_scaling['y_stability_threshold']
DefaultConfig == [change_threshold |-> ChangeThresholdPct,
                  y_stability_threshold |-> YStabilityThresholdPct]

\* configure_efficient_updates(key=value): one of the five attributes of the
\* first list is set with setattr, a key of axis_scaling in that dictionary
configure_efficient_updates(config, key, value) ==
    IF key = "change_threshold" THEN [config EXCEPT !.change_threshold = value]
    ELSE IF key = "y_stability_threshold"
         THEN [config EXCEPT !.y_stability_threshold = value]
         ELSE config

\* _significant_scale_change under the settings config, thresholds in percent
significant_scale_change_at(old_stats, new_stats, config) ==
    LET old_min == old_stats[1]
        old_max == old_stats[2]
        new_min == new_stats[1]
        new_max == new_stats[2]
        \* range_change > threshold
        range_sig ==
            IF old_max # old_min
            THEN 100 * Abs((new_max - new_min) - (old_max - old_min))
                   > config.y_stability_threshold * (old_max - old_min)
            ELSE new_max # new_min
        \* mean_change > threshold, means are sum / n
        mean_sig ==
            IF old_stats[3] # 0
            THEN 100 * Abs(new_stats[3] * old_stats[4] - old_stats[3] * new_stats[4])
                   > config.y_stability_threshold * new_stats[4] * Abs(old_stats[3])
            ELSE new_stats[3] # 0
    IN range_sig \/ mean_sig

\* _significant_scale_change under the settings of __init_efficient_updates__
significant_scale_change(old_stats, new_stats) ==
    significant_scale_change_at(old_stats, new_stats, DefaultConfig)

\* np.allclose(a, b, rtol): |a - b| <= atol + rtol * |b| for min, max, mean, std.
\* atol = 1e-8 is below the resolution of the statistics of integer samples.
AllClose(a, b, rtolPct) ==
    LET sa == a[5] * b[4] * b[4]
        sb == b[5] * a[4] * a[4]
    IN /\ 100 * Abs(a[1] - b[1]) <= rtolPct * Abs(b[1])
       /\ 100 * Abs(a[2] - b[2]) <= rtolPct * Abs(b[2])
       /\ 100 * Abs(a[3] * b[4] - b[3] * a[4]) <= rtolPct * a[4] * Abs(b[3])
       /\ IF sa >= sb
          THEN 10000 * sa <= (100 + rtolPct) * (100 + rtolPct) * sb
          ELSE (100 - rtolPct) * (100 - rtolPct) * sb <= 10000 * sa

\* "if channel not in self.channel_states: self.channel_states[channel] = ChannelState()"
GetOrCreate(states, channel) ==
    IF channel \in DOMAIN states THEN states
    ELSE [c \in DOMAIN states \cup {channel} |->
             IF c = channel THEN DefaultChannelState ELSE states[c]]

\* _detect_1d_changes under the settings config: the new state map and the
\* classification
detect_1d_changes_at(states, channel, reading0, config) ==
    LET reading == Squeeze(reading0)
        states1 == GetOrCreate(states, channel)
        state == states1[channel]
        current_hash == Md5(reading.data)
        current_stats == Stats(reading.data)
        change_type ==
            IF reading.shape # state.shape THEN "DIMENSION_CHANGE"
            ELSE IF significant_scale_change_at(state.statistical_signature,
                                                current_stats, config)
                 THEN "SCALE_CHANGE"
                 ELSE "DATA_CHANGE"
    IN IF current_hash = state.data_hash
       THEN [states |-> states1, change |-> "NO_CHANGE"]
       ELSE [states |-> [states1 EXCEPT ![channel] =
                            [state EXCEPT !.data_hash = current_hash,
                                          !.shape = reading.shape,
                                          !.data_range = <<current_stats[1], current_stats[2]>>,
                                          !.statistical_signature = current_stats,
                                          !.update_count = @ + 1]],
             change |-> change_type]

\* _detect_1d_changes under the settings of __init_efficient_updates__
detect_1d_changes(states, channel, reading0) ==
    detect_1d_changes_at(states, channel, reading0, DefaultConfig)

\* a 2D detector that forgets to store the statistical signature
detect_2d_changes_unsigned(states, channel, reading) ==
    IF Len(reading.shape) <= 1
    THEN [states |-> states, change |-> "NO_CHANGE"]
    ELSE
    LET states1 == GetOrCreate(states, channel)
        state == states1[channel]
        current_stats == Stats(reading.data)
    IN IF /\ reading.shape = state.shape
          /\ AllClose(current_stats, state.statistical_signature, ChangeThresholdPct)
       THEN [states |-> states1, change |-> "NO_CHANGE"]
       ELSE [states |-> [states1 EXCEPT ![channel] =
                            [state EXCEPT !.shape = reading.shape,
                                          !.update_count = @ + 1]],
             change |-> IF reading.shape # state.shape THEN "DIMENSION_CHANGE"
                        ELSE "DATA_CHANGE"]

\* _detect_2d_changes
detect_2d_changes(states, channel, reading) ==
    IF Len(reading.shape) <= 1
    THEN [states |-> states, change |-> "NO_CHANGE"]
    ELSE
    LET states1 == GetOrCreate(states, channel)
        state == states1[channel]
        current_stats == Stats(reading.data)
        change_type ==
            IF reading.shape # state.shape THEN "DIMENSION_CHANGE"
            ELSE IF significant_scale_change(state.statistical_signature, current_stats)
                 THEN "SCALE_CHANGE"
                 ELSE "DATA_CHANGE"
    IN IF /\ reading.shape = state.shape
          /\ AllClose(current_stats, state.statistical_signature, ChangeThresholdPct)
       THEN [states |-> states1, change |-> "NO_CHANGE"]
       ELSE [states |-> [states1 EXCEPT ![channel] =
                            [state EXCEPT !.shape = reading.shape,
                                          !.statistical_signature = current_stats,
                                          !.update_count = @ + 1]],
             change |-> change_type]

\* the branch of _check_and_update_channels on is2d[idx]
classify(states, channel, reading) ==
    IF reading.is2d THEN detect_2d_changes(states, channel, reading)
                    ELSE detect_1d_changes(states, channel, reading)

----------------------------------------------------------------------------
(* Axis planner and the limits a rebuild applies *)

\* _needs_axis_expansion: buffer = 0.1 * (current_max - current_min);
\* data_min < current_min + buffer or data_max > current_max - buffer,
\* both sides multiplied by 10; data in counts, limits in hundredths
needs_axis_expansion(data_min, data_max, current_limits) ==
    LET current_min == current_limits[1]
        current_max == current_limits[2]
        current_range == current_max - current_min
    IN \/ 10 * Scale * data_min < 10 * current_min + current_range
       \/ 10 * Scale * data_max > 10 * current_max - current_range

\* a margin for constant data without the floor of 1
ConstantMarginUnfloored(center) == (Scale \div 10) * Abs(center)

\* max(1, abs(center) * 0.1), in hundredths
ConstantMargin(center) == Max2(Scale, (Scale \div 10) * Abs(center))

\* np.std(data) in hundredths, rounded down
StdScaled(data) == ISqrt(Stats(data)[5] * Scale * Scale) \div Len(data)

\* margin = data_range * y_margin_factor * (1 + data_std / data_range)
\* (adaptive_margins is True), in hundredths, rounded down
AdaptiveMargin(data) ==
    LET data_range == SeqMax(data) - SeqMin(data)
        data_std == StdScaled(data)
    IN IF data_std > 0
       THEN (YMarginFactorPct * (Scale * data_range + data_std)) \div 100
       ELSE (YMarginFactorPct * Scale * data_range) \div 100

\* a planner without the stability branch
calculate_optimal_y_limits_unstable(data, state) ==
    IF SeqMin(data) = SeqMax(data)
    THEN <<Scale * SeqMin(data) - ConstantMargin(SeqMin(data)),
           Scale * SeqMin(data) + ConstantMargin(SeqMin(data))>>
    ELSE <<Scale * SeqMin(data) - AdaptiveMargin(data),
           Scale * SeqMax(data) + AdaptiveMargin(data)>>

\* _calculate_optimal_y_limits(data, state)
calculate_optimal_y_limits(data, state) ==
    LET data_min == SeqMin(data)
        data_max == SeqMax(data)
        margin == AdaptiveMargin(data)
    IN IF data_min = data_max
       THEN <<Scale * data_min - ConstantMargin(data_min),
              Scale * data_min + ConstantMargin(data_min)>>
       ELSE IF /\ state.update_count > StabilityFrames
               /\ ~needs_axis_expansion(data_min, data_max, state.y_limits)
            THEN state.y_limits
            ELSE <<Scale * data_min - margin, Scale * data_max + margin>>

\* the y-limits _create_figure_and_plots sets for a 1D channel
BuildYLimits(data) ==
    LET data_min == SeqMin(data)
        data_max == SeqMax(data)
        margin == (5 * Scale * (data_max - data_min)) \div 100
    IN IF data_min = data_max
       THEN <<Scale * data_min - ConstantMargin(data_min),
              Scale * data_max + ConstantMargin(data_min)>>
       ELSE <<Scale * data_min - margin, Scale * data_max + 2 * margin>>

----------------------------------------------------------------------------
(* Dictionaries *)

EmptyMap == [c \in {} |-> 0]

Put(f, k, v) == [x \in DOMAIN f \cup {k} |-> IF x = k THEN v ELSE f[x]]

\* the channels of S in ascending order, the order of active_channels
RECURSIVE SortedSeq(_)
SortedSeq(S) ==
    IF S = {} THEN <<>>
    ELSE LET m == CHOOSE x \in S : \A y \in S : x <= y
         IN <<m>> \o SortedSeq(S \ {m})

----------------------------------------------------------------------------
(* RenderSurface: full rebuild *)

\* the display state the UI thread works on
Surface(l, i, a, cc, acc, cs) ==
    [lines |-> l, images |-> i, axes |-> a, channel_cache |-> cc,
     active_channels_cache |-> acc, channel_states |-> cs]

\* a build that draws a line for every active channel, 2D ones included
create_figure_and_plots_every(readings) ==
    [lines |-> [c \in ActiveChannels(readings) |-> readings[c].data],
     axes |-> [c \in ActiveChannels(readings) |->
                  [xlim |-> <<0, Len(readings[c].data)>>,
                   ylim |-> BuildYLimits(readings[c].data)]],
     channel_cache |-> [c \in ActiveChannels(readings) |-> readings[c].data]]

\* _create_figure_and_plots: one subplot, line and cache entry per 1D channel
create_figure_and_plots(readings) ==
    LET channels_1d == {c \in ActiveChannels(readings) : ~readings[c].is2d}
        data(c) == Squeeze(readings[c]).data
    IN [lines |-> [c \in channels_1d |-> data(c)],
        axes |-> [c \in channels_1d |->
                     [xlim |-> <<0, Len(data(c))>>, ylim |-> BuildYLimits(data(c))]],
        channel_cache |-> [c \in channels_1d |-> data(c)]]

\* _create_2d_3d_tab for every channel with is2d: "if data.ndim <= 1: return"
create_2d_3d_tabs(readings) ==
    LET channels_2d == {c \in ActiveChannels(readings) :
                           readings[c].is2d /\ Len(readings[c].shape) > 1}
    IN [c \in channels_2d |->
           [shape |-> readings[c].shape, data |-> readings[c].data, is_3d |-> FALSE]]

\* create_display: _clear_display, then build from a fresh read of the device;
\* channel_states is not touched
create_display(st, dev) ==
    LET readings == GetChannelData(dev)
        plots == create_figure_and_plots(readings)
    IN [st EXCEPT !.lines = plots.lines,
                  !.axes = plots.axes,
                  !.channel_cache = plots.channel_cache,
                  !.images = create_2d_3d_tabs(readings),
                  !.active_channels_cache = ActiveChannels(readings)]

----------------------------------------------------------------------------
(* RenderSurface: incremental patch *)

\* len(self.channel_cache.get(channel, []))
CachedLen(cc, channel) == IF channel \in DOMAIN cc THEN Len(cc[channel]) ELSE 0

\* a 1D patch that rescales the axes for every change type
update_1d_channel_efficient_rescaling(st, channel, change_type, reading0) ==
    IF channel \notin DOMAIN st.lines \/ channel \notin DOMAIN st.axes
    THEN [st |-> st, raised |-> FALSE]
    ELSE IF channel \notin DOMAIN st.channel_states
    THEN [st |-> st, raised |-> TRUE]
    ELSE
    LET data == Squeeze(reading0).data
        state == st.channel_states[channel]
        new_y_limits == calculate_optimal_y_limits(data, state)
    IN [st |-> [st EXCEPT !.lines = Put(st.lines, channel, data),
                          !.axes = Put(st.axes, channel,
                                       [xlim |-> <<0, Len(data)>>, ylim |-> new_y_limits]),
                          !.channel_states =
                              Put(st.channel_states, channel,
                                  [state EXCEPT !.x_limits = <<0, Len(data)>>,
                                                !.y_limits = new_y_limits]),
                          !.channel_cache = Put(st.channel_cache, channel, data)],
        raised |-> FALSE]

\* _update_1d_channel_efficient; raised is the KeyError of
\* self.channel_states[channel] when the state map holds no entry
update_1d_channel_efficient(st, channel, change_type, reading0) ==
    IF channel \notin DOMAIN st.lines \/ channel \notin DOMAIN st.axes
    THEN [st |-> st, raised |-> FALSE]
    ELSE IF channel \notin DOMAIN st.channel_states
    THEN [st |-> st, raised |-> TRUE]
    ELSE
    LET data == Squeeze(reading0).data
        state == st.channel_states[channel]
        rescale == change_type \in {"DIMENSION_CHANGE", "SCALE_CHANGE"}
        extend == rescale /\ Len(data) # CachedLen(st.channel_cache, channel)
        new_y_limits == calculate_optimal_y_limits(data, state)
        replan == rescale /\ new_y_limits # state.y_limits
        ax1 == IF extend THEN [st.axes[channel] EXCEPT !.xlim = <<0, Len(data)>>]
                         ELSE st.axes[channel]
        ax2 == IF replan THEN [ax1 EXCEPT !.ylim = new_y_limits] ELSE ax1
        state1 == IF extend THEN [state EXCEPT !.x_limits = <<0, Len(data)>>] ELSE state
        state2 == IF replan THEN [state1 EXCEPT !.y_limits = new_y_limits] ELSE state1
    IN [st |-> [st EXCEPT !.lines = Put(st.lines, channel, data),
                          !.axes = Put(st.axes, channel, ax2),
                          !.channel_states = Put(st.channel_states, channel, state2),
                          !.channel_cache = Put(st.channel_cache, channel, data)],
        raised |-> FALSE]

\* _update_2d_3d_image: reads the device again and replaces the image data
update_2d_3d_image(st, channel, dev) ==
    LET reading == ReadChannel(dev[channel])
    IN IF channel \notin DOMAIN st.images THEN st
       ELSE IF ~reading.active THEN st
       ELSE IF Len(reading.shape) <= 1 THEN st
       ELSE IF st.images[channel].is_3d THEN st
       ELSE [st EXCEPT !.images =
                Put(st.images, channel,
                    [st.images[channel] EXCEPT !.data = reading.data,
                                               !.shape = reading.shape])]

\* a 2D patch without the test "if channel in self.images"
update_2d_channel_efficient_unchecked(st, channel, change_type, dev) ==
    IF change_type # "DATA_CHANGE"
    THEN [st EXCEPT !.images =
             Put(st.images, channel,
                 [shape |-> ReadChannel(dev[channel]).shape,
                  data |-> ReadChannel(dev[channel]).data, is_3d |-> FALSE])]
    ELSE st

\* _update_2d_channel_efficient
update_2d_channel_efficient(st, channel, change_type, dev) ==
    IF channel \in DOMAIN st.images /\ change_type # "DATA_CHANGE"
    THEN update_2d_3d_image(st, channel, dev)
    ELSE st

\* the loop of update_on_main_thread over channels_to_update, in order; the
\* first exception ends it
RECURSIVE run_updates(_, _, _, _)
run_updates(st, updates, channel_data, dev) ==
    IF updates = <<>> THEN [st |-> st, raised |-> FALSE]
    ELSE LET u == Head(updates)
         IN IF u.is_2d
            THEN run_updates(update_2d_channel_efficient(st, u.channel, u.change_type, dev),
                             Tail(updates), channel_data, dev)
            ELSE LET r == update_1d_channel_efficient(st, u.channel, u.change_type,
                                                      channel_data[u.channel])
                 IN IF r.raised THEN r
                    ELSE run_updates(r.st, Tail(updates), channel_data, dev)

\* update_on_main_thread: the batch; "except Exception" prints the error and
\* the callback returns
update_on_main_thread(st, updates, channel_data, dev) ==
    run_updates(st, updates, channel_data, dev).st

----------------------------------------------------------------------------
(* DisplayController: update_plot *)

\* what the GUI toolkit does during one call: "ok" nothing raises; "patch" the
\* redraw of _update_existing_plots raises; "build" create_display raises while
\* it creates the notebook and figure; "tabs" create_display raises in
\* _create_2d_3d_tab; "down" every toolkit call raises, also in the handler
Gui == {"ok", "patch", "build", "tabs", "down"}

\* create_display raises: _create_2d_3d_tab runs only for a 2D channel
CreateDisplayRaises(dev, gui) ==
    \/ gui \in {"build", "down"}
    \/ gui = "tabs" /\ create_2d_3d_tabs(GetChannelData(dev)) # EmptyMap

\* create_display that raises: _clear_display has run; raised while creating
\* the widgets nothing is built, raised in _create_2d_3d_tab the 1D plots are
\* built; active_channels_cache (the last statement) is not reached
failed_create_display(st, dev, gui) ==
    LET plots == create_figure_and_plots(GetChannelData(dev))
    IN IF gui = "tabs"
       THEN [st EXCEPT !.lines = plots.lines, !.axes = plots.axes,
                       !.channel_cache = plots.channel_cache, !.images = EmptyMap]
       ELSE [st EXCEPT !.lines = EmptyMap, !.axes = EmptyMap,
                       !.channel_cache = EmptyMap, !.images = EmptyMap]

\* the y-limits _update_existing_plots computes: margin 5% of the range
PatchYLimits(data) ==
    LET data_min == SeqMin(data)
        data_max == SeqMax(data)
        margin == (5 * Scale * (data_max - data_min)) \div 100
    IN IF data_min = data_max
       THEN <<Scale * data_min - ConstantMargin(data_min),
              Scale * data_max + ConstantMargin(data_min)>>
       ELSE <<Scale * data_min - margin, Scale * data_max + margin>>

\* ylim_change > 0.1: the two relative moves of the limits add up to more than 10%
YlimMoved(new_ylim, current_ylim) ==
    10 * (Abs(new_ylim[1] - current_ylim[1]) + Abs(new_ylim[2] - current_ylim[2]))
        > current_ylim[2] - current_ylim[1]

\* _update_existing_plots: every 2D channel with an image is redrawn from the
\* device, every 1D channel with a line whose data differs from the cache gets
\* the new data, x-limits on a new length and y-limits on a move above 10%
update_existing_plots(st, readings, dev) ==
    LET active == ActiveChannels(readings)
        data(c) == Squeeze(readings[c]).data
        changed(c) == /\ c \in active /\ ~readings[c].is2d
                      /\ c \in DOMAIN st.lines
                      /\ (c \notin DOMAIN st.channel_cache \/ data(c) # st.channel_cache[c])
        ax(c) == LET a1 == IF Len(data(c)) # CachedLen(st.channel_cache, c)
                           THEN [st.axes[c] EXCEPT !.xlim = <<0, Len(data(c))>>]
                           ELSE st.axes[c]
                 IN IF YlimMoved(PatchYLimits(data(c)), a1.ylim)
                    THEN [a1 EXCEPT !.ylim = PatchYLimits(data(c))]
                    ELSE a1
    IN [st EXCEPT
          !.lines = [c \in DOMAIN st.lines |-> IF changed(c) THEN data(c) ELSE st.lines[c]],
          !.axes = [c \in DOMAIN st.axes |-> IF changed(c) THEN ax(c) ELSE st.axes[c]],
          !.channel_cache = [c \in DOMAIN st.channel_cache \cup {x \in active : changed(x)} |->
                                IF changed(c) THEN data(c) ELSE st.channel_cache[c]],
          !.images = [c \in DOMAIN st.images |->
                         IF c \in active /\ readings[c].is2d
                         THEN update_2d_3d_image(st, c, dev).images[c]
                         ELSE st.images[c]]]

\* the branch update_plot takes after the rate limit: "rebuild" on the flag, on
\* a change of the active set against active_channels_cache, or on a cached
\* channel whose shape changed; otherwise it patches
update_plot_branch(st, dev, rebuild) ==
    LET readings == GetChannelData(dev)
        active == ActiveChannels(readings)
    IN IF rebuild THEN "rebuild"
       ELSE IF active # st.active_channels_cache THEN "rebuild"
       ELSE IF \E c \in active \cap DOMAIN st.channel_cache :
                  <<Len(st.channel_cache[c])>> # readings[c].shape
            THEN "rebuild"
            ELSE "patch"

\* update_plot without the rate limit of lines 257-258
update_plot_unlimited(st, dev, force, rebuild, t, last, gui) ==
    LET branch == update_plot_branch(st, dev, rebuild)
        raises == IF branch = "rebuild" THEN CreateDisplayRaises(dev, gui)
                                        ELSE gui \in {"patch", "down"}
        patched == update_existing_plots(st, GetChannelData(dev), dev)
    IN [st |-> IF ~raises
               THEN IF branch = "rebuild" THEN create_display(st, dev) ELSE patched
               ELSE IF gui = "down" THEN failed_create_display(st, dev, gui)
                    ELSE create_display(st, dev),
        last_update_time |-> t,
        decision |-> IF branch = "patch" /\ patched = st THEN "nothing" ELSE branch,
        raised |-> raises,
        rebuilt |-> (branch = "rebuild" /\ ~raises) \/ (raises /\ gui # "down")]

\* update_plot(force, rebuild) at time t: the new surface and last_update_time,
\* the branch taken ("suppressed" by the rate limit), whether an exception was
\* raised inside the try, and whether create_display ran to its end
update_plot(st, dev, force, rebuild, t, last, gui) ==
    IF ~force /\ ~rebuild /\ t - last < UpdateInterval
    THEN [st |-> st, last_update_time |-> last, decision |-> "suppressed",
          raised |-> FALSE, rebuilt |-> FALSE]
    ELSE
    LET branch == update_plot_branch(st, dev, rebuild)
        raises == IF branch = "rebuild" THEN CreateDisplayRaises(dev, gui)
                                        ELSE gui \in {"patch", "down"}
        patched == update_existing_plots(st, GetChannelData(dev), dev)
    IN [st |-> IF ~raises
               THEN IF branch = "rebuild" THEN create_display(st, dev) ELSE patched
               ELSE IF gui = "down" THEN failed_create_display(st, dev, gui)
                    ELSE create_display(st, dev),
        last_update_time |-> t,
        decision |-> IF branch = "patch" /\ patched = st THEN "nothing" ELSE branch,
        raised |-> raises,
        rebuilt |-> (branch = "rebuild" /\ ~raises) \/ (raises /\ gui # "down")]

----------------------------------------------------------------------------
(* UpdateScheduler: one poll cycle *)

\* the loop "for idx, channel in enumerate(active_channels)" of
\* _check_and_update_channels: classify each active channel in order
RECURSIVE ClassifyAll(_, _, _)
ClassifyAll(states, chans, readings) ==
    IF chans = <<>> THEN [states |-> states, updates |-> <<>>]
    ELSE LET c == Head(chans)
             r == classify(states, c, readings[c])
             rest == ClassifyAll(r.states, Tail(chans), readings)
         IN [states |-> rest.states,
             updates |-> IF r.change # "NO_CHANGE"
                         THEN <<[channel |-> c, change_type |-> r.change,
                                 is_2d |-> readings[c].is2d]>> \o rest.updates
                         ELSE rest.updates]

UpdatedChannels(updates) == {updates[i].channel : i \in 1..Len(updates)}

\* _check_and_update_channels: the new state map, the batch handed to
\* _update_changed_channels, whether force_rebuild is posted, and the result
check_and_update_readings(states, readings) ==
    LET current_set == ActiveChannels(readings)
        r == ClassifyAll(states, SortedSeq(current_set), readings)
        cached_set == DOMAIN r.states
        rebuild == current_set # cached_set
    IN [states |-> r.states,
        updates |-> r.updates,
        channel_data |-> [c \in {u \in UpdatedChannels(r.updates) : ~readings[u].is2d}
                             |-> readings[c]],
        current_set |-> current_set,
        cached_set |-> cached_set,
        post_rebuild |-> rebuild,
        changes_detected |-> (r.updates # <<>>) \/ rebuild]

check_and_update_channels(states, dev) ==
    check_and_update_readings(states, GetChannelData(dev))

\* _get_channel_data while get_acq_setting or get_block raises for the slots in
\* failed: the inner "except Exception" prints the error and skips the slot
GetChannelDataFailing(dev, failed) ==
    [c \in Channels |-> IF c \in failed THEN NoReading ELSE ReadChannel(dev[c])]

\* where an exception can be raised inside the try of _check_and_update_channels:
\* in the detector of an active channel (between the lookup of its ChannelState
\* and the update of that state), in the after_idle that posts the patch batch,
\* or in the after_idle that posts force_rebuild
RaisePoints ==
    [in : {"classify"}, channel : Channels]
        \cup {[in |-> "patch", channel |-> 0], [in |-> "rebuild", channel |-> 0]}

\* the callbacks a cycle posts with after_idle, in order
PatchCallback(updates, channel_data) ==
    [kind |-> "patch", updates |-> updates, channel_data |-> channel_data]
RebuildCallback == [kind |-> "rebuild", updates |-> <<>>, channel_data |-> EmptyMap]

\* a cycle that posts its batch without the test "if channels_to_update"
PostedUnguarded(r) ==
    <<PatchCallback(r.updates, r.channel_data)>>
    \o (IF r.post_rebuild THEN <<RebuildCallback>> ELSE <<>>)

Posted(r) ==
    (IF r.updates # <<>> THEN <<PatchCallback(r.updates, r.channel_data)>> ELSE <<>>)
    \o (IF r.post_rebuild THEN <<RebuildCallback>> ELSE <<>>)

\* the exception can be raised at the point at, r being what the cycle has
\* classified when it gets there
CanRaise(r, current_set, at) ==
    IF at.in = "classify" THEN at.channel \in current_set
    ELSE IF at.in = "patch" THEN r.updates # <<>>
    ELSE current_set # DOMAIN r.states

\* what a cycle leaves behind when the exception is raised at the point at
\* after the classification r: the state of at.channel was looked up (and
\* created) before its detector raised, and the patch batch was posted before
\* the posting of force_rebuild raised
RaisedAfter(r, readings, current_set, at) ==
    [states |-> IF at.in = "classify" THEN GetOrCreate(r.states, at.channel)
                                      ELSE r.states,
     posted |-> IF at.in = "rebuild" /\ r.updates # <<>>
                THEN <<PatchCallback(r.updates,
                                     [c \in {u \in UpdatedChannels(r.updates) :
                                                 ~readings[u].is2d} |-> readings[c]])>>
                ELSE <<>>,
     current_set |-> current_set,
     can_raise |-> CanRaise(r, current_set, at)]

\* the try of _check_and_update_channels up to the point at where the exception
\* is raised: the channels before it are classified
failed_check_and_update_readings(states, readings, at) ==
    LET current_set == ActiveChannels(readings)
        before == IF at.in = "classify" THEN {c \in current_set : c < at.channel}
                                        ELSE current_set
    IN RaisedAfter(ClassifyAll(states, SortedSeq(before), readings),
                   readings, current_set, at)

\* a failed cycle that reports a change to the loop
failed_check_and_update_channels_as_change(states, dev, at) ==
    [changes_detected |-> TRUE]
        @@ failed_check_and_update_readings(states, GetChannelData(dev), at)

\* _check_and_update_channels when an exception is raised at the point at:
\* "except Exception" prints the error and returns False
failed_check_and_update_channels(states, dev, at) ==
    [changes_detected |-> FALSE]
        @@ failed_check_and_update_readings(states, GetChannelData(dev), at)

\* an interval adjustment that grows without the cap of max_update_interval
AdjustIntervalUncapped(current_interval, no_change_count, changes_detected) ==
    IF changes_detected
    THEN [current_interval |-> Max2(MinInterval, (current_interval * 9) \div 10),
          no_change_count |-> 0]
    ELSE [current_interval |->
              IF no_change_count + 1 > StabilityFrames
              THEN (current_interval * 11) \div 10
              ELSE current_interval,
          no_change_count |-> no_change_count + 1]

\* the adaptive interval adjustment of _update_loop (ms, rounded down).
\* The outer "except" of the loop is not reached: _check_and_update_channels
\* catches every Exception itself.
AdjustInterval(current_interval, no_change_count, changes_detected) ==
    IF changes_detected
    THEN [current_interval |-> Max2(MinInterval, (current_interval * 9) \div 10),
          no_change_count |-> 0]
    ELSE [current_interval |->
              IF no_change_count + 1 > StabilityFrames
              THEN Min2(MaxInterval, (current_interval * 11) \div 10)
              ELSE current_interval,
          no_change_count |-> no_change_count + 1]

----------------------------------------------------------------------------
(* Threads of _update_loop *)

\* a thread entering _update_loop: the locals, then the first wait; stopped
\* records that stop_efficient_updates ran while the thread was in the loop body
NewThread == [pc |-> "wait", current_interval |-> BaseInterval, no_change_count |-> 0,
              stopped |-> FALSE]

NoThreads == EmptyBag
One(th) == SetToBag({th})

\* the threads in the loop body
InBody(ths) == {x \in BagToSet(ths) : x.pc # "wait"}

\* update_stop_event.set(): every thread blocked in wait() is woken, its wait
\* returns True and the loop ends (within the join that follows); a thread in
\* the loop body goes on with its cycle
Signal(ths) ==
    [th \in {[x EXCEPT !.stopped = TRUE] : x \in InBody(ths)} |->
        LET same == {x \in InBody(ths) : [x EXCEPT !.stopped = TRUE] = th}
        IN IF Cardinality(same) = 1
           THEN ths[CHOOSE x \in same : TRUE]
           ELSE ths[th] + ths[[th EXCEPT !.stopped = FALSE]]]

\* threading.Thread(target=self._update_loop).start()
Spawn(ths) == ths (+) One(NewThread)

\* the scheduler fields start/stop work on
Sched(running, event, th) == [update_running |-> running, update_stop_event |-> event,
                              threads |-> th]

\* start_efficient_updates
start_efficient_updates(sc) ==
    IF sc.update_running THEN sc
    ELSE Sched(TRUE, FALSE, Spawn(sc.threads))

\* a stop without the early return of a scheduler that is not running
stop_efficient_updates_unguarded(sc) == Sched(FALSE, TRUE, Signal(sc.threads))

\* stop_efficient_updates; join(timeout=1.0) returns when the thread has ended,
\* or after the timeout with the thread still inside the loop body
stop_efficient_updates(sc) ==
    IF ~sc.update_running THEN sc
    ELSE Sched(FALSE, TRUE, Signal(sc.threads))

----------------------------------------------------------------------------
(* DisplayController: force_rebuild *)

\* MCSDisplay.force_rebuild: clear the caches, then create_display
base_force_rebuild(st, dev) ==
    create_display([st EXCEPT !.channel_cache = EmptyMap,
                              !.active_channels_cache = {},
                              !.lines = EmptyMap,
                              !.axes = EmptyMap,
                              !.images = EmptyMap], dev)

\* a force_rebuild that does not restart the scheduler
force_rebuild_no_restart(st, sc, dev) ==
    [st |-> base_force_rebuild([st EXCEPT !.channel_states = EmptyMap], dev),
     sc |-> IF sc.update_running THEN stop_efficient_updates(sc) ELSE sc]

\* EfficientMCSDisplay.force_rebuild
force_rebuild(st, sc, dev) ==
    LET was_running == sc.update_running
        sc1 == IF was_running THEN stop_efficient_updates(sc) ELSE sc
        st1 == base_force_rebuild([st EXCEPT !.channel_states = EmptyMap], dev)
        sc2 == IF was_running THEN start_efficient_updates(sc1) ELSE sc1
    IN [st |-> st1, sc |-> sc2]

\* EfficientMCSDisplay.force_rebuild when create_display raises: the scheduler
\* was stopped and the states and caches cleared, the exception leaves
\* force_rebuild before the restart
failed_force_rebuild(st, sc, dev, gui) ==
    [st |-> failed_create_display([st EXCEPT !.channel_states = EmptyMap,
                                             !.active_channels_cache = {}], dev, gui),
     sc |-> IF sc.update_running THEN stop_efficient_updates(sc) ELSE sc]

\* the restart in force_rebuild stays within the bound on live threads
CanRestart(sc) == sc.update_running => BagCardinality(Signal(sc.threads)) < MaxThreads

----------------------------------------------------------------------------
(* State *)

CurSurface == Surface(lines, images, axes, channel_cache, active_channels_cache,
                      channel_states)
CurSched == Sched(update_running, update_stop_event, threads)

SetSurface(st) ==
    /\ lines' = st.lines
    /\ images' = st.images
    /\ axes' = st.axes
    /\ channel_cache' = st.channel_cache
    /\ active_channels_cache' = st.active_channels_cache
    /\ channel_states' = st.channel_states

SetSched(sc) ==
    /\ update_running' = sc.update_running
    /\ update_stop_event' = sc.update_stop_event
    /\ threads' = sc.threads

surfaceVars == <<lines, images, axes, channel_cache, active_channels_cache, channel_states>>
timeVars == <<now, last_update_time>>
schedVars == <<update_running, update_stop_event, threads>>

\* the clock when the display is constructed: time.time() is far past
\* update_interval
Epoch == 10 * UpdateInterval

\* no cycle has run yet
NoCycle == [polled |-> FALSE, keys_before |-> {}, current_set |-> {},
            changes |-> [c \in Channels |-> "NONE"],
            patch_channels |-> {}, posted_rebuild |-> FALSE,
            changes_detected |-> FALSE, raised |-> FALSE, failed |-> {}]

NoCall == [fn |-> "none", channel |-> 0, reading |-> NoReading,
           states_before |-> EmptyMap, change |-> "NONE", planned |-> FALSE,
           plan_state |-> DefaultChannelState, result |-> <<0, 0>>, repeat |-> FALSE,
           raised |-> FALSE, stale |-> {},
           escaped |-> FALSE, decision |-> "none", force |-> FALSE]

\* the blocks the instrument presents in the runs of the whole display
Zero == [xdim |-> 0, data |-> <<0, 0>>]
Flat == [xdim |-> 0, data |-> <<5, 5>>]
Ramp == [xdim |-> 0, data |-> <<0, 20>>]
Map2D == [xdim |-> 1, data |-> <<1, 5>>]

Blocks(c) == IF c = 0 THEN {Zero, Flat, Ramp, Map2D} ELSE {Zero, Flat}

\* EfficientMCSDisplay.__init__: MCSDisplay.__init__ builds the display from the
\* device as it is, then __init_efficient_updates__
Constructed(dev) ==
    create_display(Surface(EmptyMap, EmptyMap, EmptyMap, EmptyMap, {}, EmptyMap), dev)

InitWith(dev, n, m) ==
    /\ device = dev
    /\ LET st == Constructed(dev)
       IN /\ lines = st.lines
          /\ images = st.images
          /\ axes = st.axes
          /\ channel_cache = st.channel_cache
          /\ active_channels_cache = st.active_channels_cache
          /\ channel_states = EmptyMap
    /\ ui_queue = <<>>
    /\ update_running = FALSE
    /\ update_stop_event = FALSE
    /\ threads = NoThreads
    /\ cycle = NoCycle
    /\ call = NoCall
    /\ budget = [polls |-> n, writes |-> m]
    /\ now = Epoch
    /\ last_update_time = 0

Init == \E dev \in [Channels -> {Zero, Flat}] :
            /\ \A c \in Channels : dev[c] \in Blocks(c)
            /\ InitWith(dev, MaxPolls, MaxWrites)

----------------------------------------------------------------------------
(* Actions of the UI thread *)

\* start_live_updates
Start ==
    /\ ~update_running
    /\ BagCardinality(threads) < MaxThreads
    /\ SetSched(start_efficient_updates(CurSched))
    /\ UNCHANGED <<timeVars, device, surfaceVars, ui_queue, cycle, call, budget>>

\* stop_live_updates
Stop ==
    /\ update_running
    /\ SetSched(stop_efficient_updates(CurSched))
    /\ UNCHANGED <<timeVars, device, surfaceVars, ui_queue, cycle, call, budget>>

\* force_rebuild called by the application (after a configuration change)
UserForceRebuild ==
    /\ CanRestart(CurSched)
    /\ LET r == force_rebuild(CurSurface, CurSched, device)
       IN SetSurface(r.st) /\ SetSched(r.sc)
    /\ UNCHANGED <<timeVars, device, ui_queue, cycle, call, budget>>

\* create_display called by the application
UserCreateDisplay ==
    /\ SetSurface(create_display(CurSurface, device))
    /\ UNCHANGED <<timeVars, device, schedVars, ui_queue, cycle, call, budget>>

\* the UI thread runs the oldest posted callback: a batch of patches
UIRunPatch ==
    /\ ui_queue # <<>>
    /\ Head(ui_queue).kind = "patch"
    /\ SetSurface(update_on_main_thread(CurSurface, Head(ui_queue).updates,
                                        Head(ui_queue).channel_data, device))
    /\ ui_queue' = Tail(ui_queue)
    /\ call' = [NoCall EXCEPT
                   !.fn = "batch",
                   !.raised = run_updates(CurSurface, Head(ui_queue).updates,
                                          Head(ui_queue).channel_data, device).raised,
                   !.stale = UpdatedChannels(Head(ui_queue).updates)
                                 \ (DOMAIN lines \cup DOMAIN images)]
    /\ UNCHANGED <<timeVars, device, schedVars, cycle, budget>>

\* the UI thread runs the oldest posted callback: force_rebuild
UIRunRebuild ==
    /\ ui_queue # <<>>
    /\ Head(ui_queue).kind = "rebuild"
    /\ CanRestart(CurSched)
    /\ LET r == force_rebuild(CurSurface, CurSched, device)
       IN SetSurface(r.st) /\ SetSched(r.sc)
    /\ ui_queue' = Tail(ui_queue)
    /\ UNCHANGED <<timeVars, device, cycle, call, budget>>

----------------------------------------------------------------------------
(* The instrument *)

\* the acquisition changes the block or the settings of a slot
DeviceWrite(c, cfg) ==
    /\ device[c] # cfg
    /\ budget.writes > 0
    /\ budget' = [budget EXCEPT !.writes = @ - 1]
    /\ device' = [device EXCEPT ![c] = cfg]
    /\ UNCHANGED <<timeVars, surfaceVars, schedVars, ui_queue, cycle, call>>

----------------------------------------------------------------------------
(* Actions of an _update_loop thread *)

\* update_stop_event.wait(current_interval) times out: the loop body starts
LoopTimeout(th) ==
    /\ th.pc = "wait"
    /\ threads' = (threads (-) One(th)) (+) One([th EXCEPT !.pc = "poll"])
    /\ UNCHANGED <<timeVars, device, surfaceVars, ui_queue, update_running, update_stop_event,
                   cycle, call, budget>>

\* the loop body: _check_and_update_channels, the interval adjustment, and the
\* next call of wait(), which returns True at once when the event is set (the
\* loop ends)
LoopPoll(th) ==
    /\ th.pc = "poll"
    /\ budget.polls > 0
    /\ LET r == check_and_update_channels(channel_states, device)
           adj == AdjustInterval(th.current_interval, th.no_change_count,
                                 r.changes_detected)
       IN /\ Len(ui_queue) + Len(Posted(r)) <= MaxQueue
          /\ channel_states' = r.states
          /\ ui_queue' = ui_queue \o Posted(r)
          /\ threads' = IF update_stop_event
                        THEN threads (-) One(th)
                        ELSE (threads (-) One(th)) (+)
                             One([pc |-> "wait",
                                  current_interval |-> adj.current_interval,
                                  no_change_count |-> adj.no_change_count,
                                  stopped |-> th.stopped])
          /\ cycle' = [polled |-> TRUE,
                       keys_before |-> DOMAIN channel_states,
                       current_set |-> r.current_set,
                       changes |-> [c \in Channels |->
                           IF \E i \in 1..Len(r.updates) : r.updates[i].channel = c
                           THEN (CHOOSE u \in {r.updates[i] : i \in 1..Len(r.updates)} :
                                    u.channel = c).change_type
                           ELSE IF c \in r.current_set THEN "NO_CHANGE" ELSE "NONE"],
                       patch_channels |-> UpdatedChannels(r.updates),
                       posted_rebuild |-> r.post_rebuild,
                       changes_detected |-> r.changes_detected,
                       raised |-> FALSE, failed |-> {}]
    /\ budget' = [budget EXCEPT !.polls = @ - 1]
    /\ UNCHANGED <<timeVars, device, lines, images, axes, channel_cache, active_channels_cache,
                   update_running, update_stop_event, call>>

----------------------------------------------------------------------------
(* The whole display *)

Next ==
    \/ Start
    \/ Stop
    \/ UserForceRebuild
    \/ UserCreateDisplay
    \/ UIRunPatch
    \/ UIRunRebuild
    \/ \E c \in Channels : \E cfg \in Blocks(c) : DeviceWrite(c, cfg)
    \/ \E th \in BagToSet(threads) : LoopTimeout(th)
    \/ \E th \in BagToSet(threads) : LoopPoll(th)

Spec == Init /\ [][Next]_vars

----------------------------------------------------------------------------
(* The polling loop on its own: one channel slot whose block changes *)

LoopDevice == [c \in Channels |-> Zero]

InitLoop == InitWith(LoopDevice, MaxLoopPolls, MaxLoopWrites)

NextLoop ==
    \/ Start
    \/ UIRunPatch
    \/ \E cfg \in {Zero, Flat, Ramp} : DeviceWrite(0, cfg)
    \/ \E th \in BagToSet(threads) : LoopTimeout(th)
    \/ \E th \in BagToSet(threads) : LoopPoll(th)

SpecLoop == InitLoop /\ [][NextLoop]_vars

----------------------------------------------------------------------------
(* The change detector on its own: classify applied to arbitrary readings *)

\* the shape classify compares with the stored one
ReadingShape(reading) == IF reading.is2d THEN reading.shape ELSE Squeeze(reading).shape

\* one call of classify, as _check_and_update_channels makes it for an active
\* channel whose slot holds cfg
ClassifyCall(c, cfg) ==
    /\ budget.polls > 0
    /\ LET reading == ReadChannel(cfg)
           r == classify(channel_states, c, reading)
       IN /\ reading.active
          /\ channel_states' = r.states
          /\ call' = [fn |-> "classify", channel |-> c, reading |-> reading,
                      states_before |-> channel_states, change |-> r.change,
                      planned |-> FALSE, plan_state |-> DefaultChannelState,
                      result |-> <<0, 0>>,
                      repeat |-> /\ call.fn = "classify"
                                 /\ call.channel = c
                                 /\ call.reading = reading,
                      raised |-> FALSE, stale |-> {},
                      escaped |-> FALSE, decision |-> "none", force |-> FALSE]
    /\ budget' = [budget EXCEPT !.polls = @ - 1]
    /\ UNCHANGED <<timeVars, device, lines, images, axes, channel_cache, active_channels_cache,
                   schedVars, ui_queue, cycle>>

\* self.channel_states.clear(), the state reset of force_rebuild
ClearStates ==
    /\ channel_states # EmptyMap
    /\ channel_states' = EmptyMap
    /\ call' = [NoCall EXCEPT !.fn = "clear"]
    /\ UNCHANGED <<timeVars, device, lines, images, axes, channel_cache, active_channels_cache,
                   schedVars, ui_queue, cycle, budget>>

InitDetect == InitWith([c \in Channels |-> Zero], MaxCalls, 0)

NextDetect ==
    \/ \E cfg \in DeviceConfigs : ClassifyCall(0, cfg)
    \/ ClearStates

SpecDetect == InitDetect /\ [][NextDetect]_vars

----------------------------------------------------------------------------
(* The axis planner on its own: one 1D channel, polled and patched at once *)

\* the 1D blocks with a nonzero sample
AxisConfigs == {cfg \in DeviceConfigs : cfg.xdim = 0 /\ AnyNonZero(cfg.data)}

\* the slot of channel c holds cfg; one poll cycle classifies it and the batch it
\* posts runs before anything else happens (_check_and_update_channels, then
\* update_on_main_thread, for this channel)
PollAndPatch(c, cfg) ==
    /\ budget.polls > 0
    /\ LET reading == ReadChannel(cfg)
           r == classify(channel_states, c, reading)
           st0 == [CurSurface EXCEPT !.channel_states = r.states]
           planned == /\ r.change \in {"DIMENSION_CHANGE", "SCALE_CHANGE"}
                      /\ c \in DOMAIN lines
                      /\ c \in DOMAIN axes
       IN /\ SetSurface(IF r.change = "NO_CHANGE" THEN st0
                        ELSE update_1d_channel_efficient(st0, c, r.change, reading).st)
          /\ call' = [fn |-> "patch", channel |-> c, reading |-> reading,
                      states_before |-> channel_states, change |-> r.change,
                      planned |-> planned, plan_state |-> r.states[c],
                      result |-> IF planned
                                 THEN calculate_optimal_y_limits(Squeeze(reading).data,
                                                                 r.states[c])
                                 ELSE <<0, 0>>,
                      repeat |-> FALSE, raised |-> FALSE, stale |-> {},
                      escaped |-> FALSE, decision |-> "none", force |-> FALSE]
    /\ device' = [device EXCEPT ![c] = cfg]
    /\ budget' = [budget EXCEPT !.polls = @ - 1]
    /\ UNCHANGED <<timeVars, schedVars, ui_queue, cycle>>

\* the application calls force_rebuild on the blocks the device holds
RebuildCall(c) ==
    /\ budget.polls > 0
    /\ LET r == force_rebuild(CurSurface, CurSched, device)
       IN /\ CanRestart(CurSched)
          /\ SetSurface(r.st)
          /\ SetSched(r.sc)
          /\ call' = [NoCall EXCEPT !.fn = "build", !.channel = c,
                                    !.reading = ReadChannel(device[c]),
                                    !.states_before = channel_states,
                                    !.result = r.st.axes[c].ylim]
    /\ budget' = [budget EXCEPT !.polls = @ - 1]
    /\ UNCHANGED <<timeVars, device, ui_queue, cycle>>

InitAxis == \E cfg \in AxisConfigs :
                InitWith([c \in Channels |-> IF c = 0 THEN cfg ELSE Zero], MaxAxisCalls, 0)

NextAxis ==
    \/ \E cfg \in AxisConfigs : PollAndPatch(0, cfg)
    \/ RebuildCall(0)

SpecAxis == InitAxis /\ [][NextAxis]_vars

----------------------------------------------------------------------------
(* update_plot on its own: the application's timer calls it while the clock runs *)

\* the step of the clock between two calls: half the rate limit
TickMs == UpdateInterval \div 2

\* time passes
Tick ==
    /\ now < Epoch + MaxTicks * TickMs
    /\ now' = now + TickMs
    /\ UNCHANGED <<last_update_time, device, surfaceVars, schedVars, ui_queue, cycle, call,
                   budget>>

\* update_plot(force, rebuild) called on the UI thread
UpdatePlot(force, rebuild, gui) ==
    /\ budget.polls > 0
    /\ LET r == update_plot(CurSurface, device, force, rebuild, now, last_update_time, gui)
       IN /\ SetSurface(r.st)
          /\ last_update_time' = r.last_update_time
          /\ call' = [NoCall EXCEPT !.fn = "update_plot", !.decision = r.decision,
                                    !.raised = r.raised, !.force = force]
    /\ budget' = [budget EXCEPT !.polls = @ - 1]
    /\ UNCHANGED <<now, device, schedVars, ui_queue, cycle>>

InitPlot == \E dev \in [Channels -> {Zero, Flat}] :
                /\ \A c \in Channels : dev[c] \in Blocks(c)
                /\ InitWith(dev, MaxPlotCalls, MaxPlotWrites)

NextPlot ==
    \/ Tick
    \/ \E c \in Channels : \E cfg \in Blocks(c) : DeviceWrite(c, cfg)
    \/ \E force \in BOOLEAN : \E rebuild \in BOOLEAN : \E gui \in Gui :
           UpdatePlot(force, rebuild, gui)

SpecPlot == InitPlot /\ [][NextPlot]_vars

----------------------------------------------------------------------------
(* The whole display with a GUI toolkit that can fail during a rebuild *)

\* force_rebuild called by the application, create_display raises
UserForceRebuildRaises(gui) ==
    /\ CreateDisplayRaises(device, gui)
    /\ LET r == failed_force_rebuild(CurSurface, CurSched, device, gui)
       IN SetSurface(r.st) /\ SetSched(r.sc)
    /\ call' = [NoCall EXCEPT !.fn = "force_rebuild", !.raised = TRUE, !.escaped = TRUE]
    /\ UNCHANGED <<timeVars, device, ui_queue, cycle, budget>>

\* the UI thread runs the posted force_rebuild, create_display raises
UIRunRebuildRaises(gui) ==
    /\ ui_queue # <<>>
    /\ Head(ui_queue).kind = "rebuild"
    /\ CreateDisplayRaises(device, gui)
    /\ LET r == failed_force_rebuild(CurSurface, CurSched, device, gui)
       IN SetSurface(r.st) /\ SetSched(r.sc)
    /\ ui_queue' = Tail(ui_queue)
    /\ call' = [NoCall EXCEPT !.fn = "posted_rebuild", !.raised = TRUE, !.escaped = TRUE]
    /\ UNCHANGED <<timeVars, device, cycle, budget>>

NextFaults ==
    \/ Start
    \/ Stop
    \/ UIRunPatch
    \/ UIRunRebuild
    \/ \E c \in Channels : \E cfg \in Blocks(c) : DeviceWrite(c, cfg)
    \/ \E th \in BagToSet(threads) : LoopTimeout(th)
    \/ \E th \in BagToSet(threads) : LoopPoll(th)
    \/ \E gui \in {"build", "tabs"} : UserForceRebuildRaises(gui)
    \/ \E gui \in {"build", "tabs"} : UIRunRebuildRaises(gui)

SpecFaults == Init /\ [][NextFaults]_vars

----------------------------------------------------------------------------
(* The whole display with poll cycles that fail *)

\* the loop body after a cycle that raised, r being what the cycle left behind
RaisedCycleEnds(th, r) ==
    LET adj == AdjustInterval(th.current_interval, th.no_change_count,
                              r.changes_detected)
    IN /\ r.can_raise
       /\ Len(ui_queue) + Len(r.posted) <= MaxQueue
       /\ channel_states' = r.states
       /\ ui_queue' = ui_queue \o r.posted
       /\ threads' = IF update_stop_event
                     THEN threads (-) One(th)
                     ELSE (threads (-) One(th)) (+)
                          One([pc |-> "wait",
                               current_interval |-> adj.current_interval,
                               no_change_count |-> adj.no_change_count,
                               stopped |-> th.stopped])
       /\ cycle' = [NoCycle EXCEPT !.polled = TRUE,
                                   !.keys_before = DOMAIN channel_states,
                                   !.current_set = r.current_set,
                                   !.changes_detected = r.changes_detected,
                                   !.raised = TRUE]

\* the loop body when an exception is raised inside _check_and_update_channels
LoopPollRaises(th, at) ==
    /\ th.pc = "poll"
    /\ budget.polls > 0
    /\ RaisedCycleEnds(th, failed_check_and_update_channels(channel_states, device, at))
    /\ budget' = [budget EXCEPT !.polls = @ - 1]
    /\ UNCHANGED <<timeVars, device, lines, images, axes, channel_cache, active_channels_cache,
                   update_running, update_stop_event, call>>

\* the loop body after a cycle in which the reads of the slots in failed raised,
\* r being the result of _check_and_update_channels
ReadErrorCycleEnds(th, failed, r) ==
    LET adj == AdjustInterval(th.current_interval, th.no_change_count,
                              r.changes_detected)
    IN /\ Len(ui_queue) + Len(Posted(r)) <= MaxQueue
       /\ channel_states' = r.states
       /\ ui_queue' = ui_queue \o Posted(r)
       /\ threads' = IF update_stop_event
                     THEN threads (-) One(th)
                     ELSE (threads (-) One(th)) (+)
                          One([pc |-> "wait",
                               current_interval |-> adj.current_interval,
                               no_change_count |-> adj.no_change_count,
                               stopped |-> th.stopped])
       /\ cycle' = [NoCycle EXCEPT !.polled = TRUE,
                                   !.keys_before = DOMAIN channel_states,
                                   !.current_set = r.current_set,
                                   !.patch_channels = UpdatedChannels(r.updates),
                                   !.posted_rebuild = r.post_rebuild,
                                   !.changes_detected = r.changes_detected,
                                   !.failed = failed]

\* the loop body when the device reads of the slots in failed raise
LoopPollReadError(th, failed) ==
    /\ th.pc = "poll"
    /\ budget.polls > 0
    /\ failed # {}
    /\ ReadErrorCycleEnds(th, failed,
                          check_and_update_readings(channel_states,
                                                    GetChannelDataFailing(device, failed)))
    /\ budget' = [budget EXCEPT !.polls = @ - 1]
    /\ UNCHANGED <<timeVars, device, lines, images, axes, channel_cache, active_channels_cache,
                   update_running, update_stop_event, call>>

\* the reads that fail in one cycle: those of one slot, or all of them (the
\* connection to the instrument is gone)
FailedReads == {{c} : c \in Channels} \cup {Channels}

NextPollFaults ==
    \/ Start
    \/ UIRunPatch
    \/ UIRunRebuild
    \/ \E c \in Channels : \E cfg \in Blocks(c) : DeviceWrite(c, cfg)
    \/ \E th \in BagToSet(threads) : LoopTimeout(th)
    \/ \E th \in BagToSet(threads) : LoopPoll(th)
    \/ \E th \in BagToSet(threads) : \E at \in RaisePoints : LoopPollRaises(th, at)
    \/ \E th \in BagToSet(threads) : \E failed \in FailedReads :
           LoopPollReadError(th, failed)

SpecPollFaults == Init /\ [][NextPollFaults]_vars

----------------------------------------------------------------------------
(* stop_efficient_updates step by step: the UI thread inside join(timeout=1.0) *)

\* the UI thread is inside update_thread.join(timeout=1.0)
UIBlocked == call.fn = "join"

\* stop_live_updates up to the join: the event is set, update_running cleared,
\* and the UI thread waits for the loop thread
StopBegin ==
    /\ ~UIBlocked
    /\ update_running
    /\ update_stop_event' = TRUE
    /\ update_running' = FALSE
    /\ call' = [NoCall EXCEPT !.fn = "join"]
    /\ UNCHANGED <<timeVars, device, surfaceVars, ui_queue, threads, cycle, budget>>

\* update_stop_event.wait(current_interval) returns True: the loop ends
LoopExit(th) ==
    /\ th.pc = "wait"
    /\ update_stop_event
    /\ threads' = threads (-) One(th)
    /\ UNCHANGED <<timeVars, device, surfaceVars, ui_queue, update_running,
                   update_stop_event, cycle, call, budget>>

\* the loop thread has ended: join returns
JoinReturn ==
    /\ UIBlocked
    /\ BagToSet(threads) = {}
    /\ call' = [NoCall EXCEPT !.fn = "stop"]
    /\ UNCHANGED <<timeVars, device, surfaceVars, ui_queue, schedVars, cycle, budget>>

\* the second of the join is over and the loop thread is still in its cycle
JoinTimeout ==
    /\ UIBlocked
    /\ InBody(threads) # {}
    /\ threads' = Signal(threads)
    /\ call' = [NoCall EXCEPT !.fn = "stop"]
    /\ UNCHANGED <<timeVars, device, surfaceVars, ui_queue, update_running,
                   update_stop_event, cycle, budget>>

NextJoin ==
    \/ ~UIBlocked /\ Start
    \/ StopBegin
    \/ JoinReturn
    \/ JoinTimeout
    \/ ~UIBlocked /\ UIRunPatch
    \/ ~UIBlocked /\ UIRunRebuild
    \/ \E c \in Channels : \E cfg \in Blocks(c) : DeviceWrite(c, cfg)
    \/ \E th \in BagToSet(threads) : LoopTimeout(th)
    \/ \E th \in BagToSet(threads) : LoopPoll(th)
    \/ \E th \in BagToSet(threads) : LoopExit(th)

SpecJoin == Init /\ [][NextJoin]_vars

----------------------------------------------------------------------------
(* The 1D change detector under configure_efficient_updates *)

\* the values change_threshold is configured to, in percent
Thresholds == {ChangeThresholdPct, 50}

\* the 1D blocks with a nonzero sample and the longest length
Configs1D == {cfg \in DeviceConfigs : cfg.xdim = 0 /\ Len(cfg.data) = MaxLen
                                          /\ AnyNonZero(cfg.data)}

\* configure_efficient_updates(change_threshold=value), then one call of
\* _detect_1d_changes for channel c whose slot holds cfg
ConfiguredClassify(c, value, cfg) ==
    /\ budget.polls > 0
    /\ LET reading == ReadChannel(cfg)
           config == configure_efficient_updates(DefaultConfig, "change_threshold", value)
           r == detect_1d_changes_at(channel_states, c, reading, config)
       IN /\ channel_states' = r.states
          /\ call' = [NoCall EXCEPT !.fn = "configured", !.channel = c,
                                    !.reading = reading,
                                    !.states_before = channel_states,
                                    !.change = r.change,
                                    !.result = <<config.change_threshold,
                                                 config.y_stability_threshold>>]
    /\ budget' = [budget EXCEPT !.polls = @ - 1]
    /\ UNCHANGED <<timeVars, device, lines, images, axes, channel_cache, active_channels_cache,
                   schedVars, ui_queue, cycle>>

NextConfigure ==
    \E value \in Thresholds : \E cfg \in Configs1D : ConfiguredClassify(0, value, cfg)

SpecConfigure == InitDetect /\ [][NextConfigure]_vars

----------------------------------------------------------------------------
(* The 1D patch on its own: one channel, polled and patched between rebuilds *)

\* the application calls create_display on the blocks the device holds
CreateDisplayCall ==
    /\ budget.polls > 0
    /\ SetSurface(create_display(CurSurface, device))
    /\ call' = [NoCall EXCEPT !.fn = "create_display"]
    /\ budget' = [budget EXCEPT !.polls = @ - 1]
    /\ UNCHANGED <<timeVars, device, schedVars, ui_queue, cycle>>

NextPatch ==
    \/ \E cfg \in AxisConfigs : PollAndPatch(0, cfg)
    \/ CreateDisplayCall

SpecPatch == InitAxis /\ [][NextPatch]_vars

----------------------------------------------------------------------------
(* _get_channel_data on its own: one slot, any range and row width *)

\* the settings and blocks of a slot: range 1..MaxReadLen, row width up to
\* MaxReadXdim, counts 0 or 1
ReadConfigs == [xdim : 0..MaxReadXdim, data : SeqsUpTo({0, 1}, MaxReadLen)]

\* the acquisition sets slot c to cfg and _get_channel_data reads it
ReadCall(c, cfg) ==
    /\ device' = [device EXCEPT ![c] = cfg]
    /\ call' = [NoCall EXCEPT !.fn = "read", !.channel = c,
                              !.reading = GetChannelData(device')[c]]
    /\ UNCHANGED <<timeVars, surfaceVars, schedVars, ui_queue, cycle, budget>>

NextRead == \E cfg \in ReadConfigs : ReadCall(0, cfg)

SpecRead == InitDetect /\ [][NextRead]_vars

----------------------------------------------------------------------------
(* The scheduler around a posted force_rebuild: every channel active at first *)

RebuildDevice == [c \in Channels |-> Flat]

InitRebuilds == InitWith(RebuildDevice, MaxRebuildPolls, MaxRebuildWrites)

\* what a poll cycle leaves behind when force_rebuild ran between the
\* classification r1 of its first channels and the classification r2 of the
\* others: fr is the result of force_rebuild
RacedResult(r1, fr, r2, readings) ==
    LET updates == r1.updates \o r2.updates
        current_set == ActiveChannels(readings)
        rebuild == current_set # DOMAIN r2.states
    IN [st |-> [fr.st EXCEPT !.channel_states = r2.states],
        sc |-> fr.sc,
        updates |-> updates,
        channel_data |-> [c \in {u \in UpdatedChannels(updates) : ~readings[u].is2d}
                             |-> readings[c]],
        current_set |-> current_set,
        post_rebuild |-> rebuild,
        changes_detected |-> (updates # <<>>) \/ rebuild]

\* the rest of the loop "for idx, channel in enumerate(active_channels)" after
\* force_rebuild has cleared channel_states
RacedSecondHalf(r1, fr, rest, readings) ==
    RacedResult(r1, fr, ClassifyAll(fr.st.channel_states, rest, readings), readings)

\* force_rebuild on the UI thread after the cycle has classified its first
\* channels (r1): channel_states.clear() works on the map the loop is writing
RacedFirstHalf(r1, st, sc, dev, rest, readings) ==
    RacedSecondHalf(r1, force_rebuild([st EXCEPT !.channel_states = r1.states], sc, dev),
                    rest, readings)

\* _check_and_update_channels with force_rebuild running on the UI thread after
\* the first k active channels were classified; the two threads share
\* channel_states without a lock
check_and_update_channels_across_rebuild(st, sc, dev, k) ==
    LET readings == GetChannelData(dev)
        chans == SortedSeq(ActiveChannels(readings))
    IN RacedFirstHalf(ClassifyAll(st.channel_states, SubSeq(chans, 1, k), readings),
                      st, sc, dev, SubSeq(chans, k + 1, Len(chans)), readings)

\* the loop body after a cycle that force_rebuild ran into, r being what the
\* two left behind; thb is the record of the thread after the stop of
\* force_rebuild
RacedCycleEnds(th, thb, r) ==
    LET adj == AdjustInterval(th.current_interval, th.no_change_count,
                              r.changes_detected)
    IN /\ Len(Tail(ui_queue)) + Len(Posted(r)) <= MaxQueue
       /\ SetSurface(r.st)
       /\ update_running' = r.sc.update_running
       /\ update_stop_event' = r.sc.update_stop_event
       /\ ui_queue' = Tail(ui_queue) \o Posted(r)
       /\ threads' = IF r.sc.update_stop_event
                     THEN r.sc.threads (-) One(thb)
                     ELSE (r.sc.threads (-) One(thb)) (+)
                          One([pc |-> "wait",
                               current_interval |-> adj.current_interval,
                               no_change_count |-> adj.no_change_count,
                               stopped |-> thb.stopped])
       /\ cycle' = [NoCycle EXCEPT !.polled = TRUE,
                                   !.keys_before = DOMAIN channel_states,
                                   !.current_set = r.current_set,
                                   !.patch_channels = UpdatedChannels(r.updates),
                                   !.posted_rebuild = r.post_rebuild,
                                   !.changes_detected = r.changes_detected]

\* the UI thread runs the posted force_rebuild while the thread th is inside its
\* cycle, k channels classified: the join of stop_efficient_updates times out
\* (or th is not the thread it joins) and the cycle goes on after the rebuild
LoopPollAcrossRebuild(th, k) ==
    /\ th.pc = "poll"
    /\ budget.polls > 0
    /\ ui_queue # <<>>
    /\ Head(ui_queue).kind = "rebuild"
    /\ CanRestart(CurSched)
    /\ k \in 1..(Cardinality(ActiveChannels(GetChannelData(device))) - 1)
    /\ RacedCycleEnds(th,
                      IF update_running THEN [th EXCEPT !.stopped = TRUE] ELSE th,
                      check_and_update_channels_across_rebuild(CurSurface, CurSched,
                                                               device, k))
    /\ call' = [NoCall EXCEPT !.fn = "rebuild_in_cycle"]
    /\ budget' = [budget EXCEPT !.polls = @ - 1]
    /\ UNCHANGED <<timeVars, device>>

NextRebuilds ==
    \/ Start
    \/ UIRunPatch
    \/ UIRunRebuild
    \/ \E c \in Channels : \E cfg \in Blocks(c) : DeviceWrite(c, cfg)
    \/ \E th \in BagToSet(threads) : LoopTimeout(th)
    \/ \E th \in BagToSet(threads) : LoopPoll(th)
    \/ \E th \in BagToSet(threads) : \E k \in 1..(Cardinality(Channels) - 1) :
           LoopPollAcrossRebuild(th, k)

SpecRebuilds == InitRebuilds /\ [][NextRebuilds]_vars

----------------------------------------------------------------------------
(* Properties of the update scheduler *)

\* the _update_loop threads alive
Live == BagToSet(threads)

\* a step that ran one poll cycle
PollStep == budget'.polls = budget.polls - 1

\* C1: at all times every polling thread's current_interval lies within
\* [min_update_interval, max_update_interval] (defaults 0.3 s and 2.0 s)
C1_IntervalWithinBounds ==
    \A th \in Live : MinInterval <= th.current_interval /\ th.current_interval <= MaxInterval

\* C2: every poll cycle whose polled set of active channels differs from the key
\* set of the ChannelState map at the beginning of the cycle posts force_rebuild
C2_SetChangePostsRebuild ==
    (cycle.polled /\ cycle.current_set # cycle.keys_before) => cycle.posted_rebuild

\* C3: a poll cycle whose polled set differs from the key set at its beginning
\* posts no patch batch
C3_SetChangePostsNoPatch ==
    (cycle.polled /\ cycle.current_set # cycle.keys_before) => cycle.patch_channels = {}

\* the render entities of the surface: 1D curves and 2D images
Entities == DOMAIN lines \cup DOMAIN images

\* C4: a cycle polling {0, 1, 2} after the cycles before it left the states of
\* {0, 1} posts force_rebuild, and once the UI queue is drained the surface
\* holds exactly three render entities
C4_ThirdChannelRebuilds ==
    (cycle.polled /\ cycle.keys_before = {0, 1} /\ cycle.current_set = {0, 1, 2})
        => /\ cycle.posted_rebuild
           /\ ui_queue = <<>> => Cardinality(Entities) = 3

\* C6: a channel classified DIMENSION_CHANGE by a poll cycle is never handed to
\* the patch batch; the cycle posts a full rebuild instead
C6_DimensionChangeRebuilds ==
    cycle.polled =>
        \A c \in Channels :
            cycle.changes[c] = "DIMENSION_CHANGE"
                => c \notin cycle.patch_channels /\ cycle.posted_rebuild

\* C9: in a poll cycle without changes the interval does not decrease and stays
\* at or below max_update_interval; a cycle with changes resets the no-change
\* counter to zero; after enough consecutive no-change cycles (the stability
\* frames and the 32 growth steps from 0.1 s) the interval is max_update_interval
C9_IntervalGrowsToMax ==
    [][/\ PollStep =>
            \A th \in Live : \A th2 \in BagToSet(threads') :
                (th.pc = "poll" /\ th2.pc = "wait") =>
                    IF cycle'.changes_detected
                    THEN th2.no_change_count = 0
                    ELSE /\ th2.current_interval >= th.current_interval
                         /\ th2.current_interval <= MaxInterval
                         /\ th2.no_change_count = th.no_change_count + 1
       /\ \A th2 \in BagToSet(threads') :
            th2.no_change_count >= StabilityFrames + 32
                => th2.current_interval = MaxInterval]_vars

\* a thread that grew its interval to the maximum over a run of no-change cycles
C9_Witness ==
    \E th \in Live : /\ th.no_change_count > StabilityFrames
                     /\ th.current_interval = MaxInterval
                     /\ cycle.polled /\ ~cycle.changes_detected

----------------------------------------------------------------------------
(* Properties of the change detector *)

\* the shape stored for the channel before the last classify call
StoredShape ==
    IF call.channel \in DOMAIN call.states_before
    THEN call.states_before[call.channel].shape
    ELSE DefaultChannelState.shape

\* C5: a reading whose shape differs from the shape stored in the ChannelState
\* is classified DIMENSION_CHANGE, whatever its values
C5_ShapeChangeIsDimensionChange ==
    (call.fn = "classify" /\ ReadingShape(call.reading) # StoredShape)
        => call.change = "DIMENSION_CHANGE"

\* C7: classifying the same reading a second time in a row answers NO_CHANGE
\* and leaves the ChannelState map as it was
C7_RepeatIsNoChange ==
    (call.fn = "classify" /\ call.repeat)
        => call.change = "NO_CHANGE" /\ channel_states = call.states_before

\* a 2D reading classified twice in a row
C7_Witness ==
    /\ call.fn = "classify" /\ call.repeat /\ call.reading.is2d
    /\ call.change = "NO_CHANGE"

----------------------------------------------------------------------------
(* Properties of the axis planner *)

PlannedData == call.reading.data

\* strictly inside the inner 80% of the limits
InsideInner(data, limits) ==
    /\ 10 * Scale * SeqMin(data) > 10 * limits[1] + (limits[2] - limits[1])
    /\ 10 * Scale * SeqMax(data) < 10 * limits[2] - (limits[2] - limits[1])

\* the planner ran on a state past the stability frames with data inside the
\* inner 80% of the state's limits
StablePlan ==
    /\ call.fn = "patch" /\ call.planned
    /\ call.plan_state.update_count > StabilityFrames
    /\ InsideInner(PlannedData, call.plan_state.y_limits)

\* C8 as stated: past the stability frames, data (constant data included)
\* strictly inside the inner 80% of y_limits gets exactly the state's y_limits
C8_StableLimitsKept == StablePlan => call.result = call.plan_state.y_limits

\* C8 amended: the same for every data array that is not constant
C8_StableLimitsKeptNonConstant ==
    (StablePlan /\ SeqMin(PlannedData) # SeqMax(PlannedData))
        => /\ call.result = call.plan_state.y_limits
           /\ channel_states[call.channel].y_limits = call.plan_state.y_limits
           /\ axes[call.channel].ylim = call.plan_state.y_limits

\* non-constant data planned inside the inner 80% past the stability frames
C8_Witness ==
    /\ StablePlan
    /\ SeqMin(PlannedData) # SeqMax(PlannedData)
    /\ call.result = call.plan_state.y_limits

\* (c - m, c + m) with m = max(1, 0.1 * |c|), in hundredths
ConstantLimits(c) ==
    LET m == IF Abs(c) > 10 THEN 10 * Abs(c) ELSE Scale
    IN <<Scale * c - m, Scale * c + m>>

IsConstant(data) == data # <<>> /\ \A i \in 1..Len(data) : data[i] = data[1]

\* one hundred samples of value 5
Hundred == [i \in 1..(10 * 10) |-> 5]

\* C10: for constant 1D data of value c the rebuild and the planner both set
\* (c - m, c + m) with m = max(1, 0.1 * |c|); a channel of 100 samples of value 5
\* is active and gets (4, 6)
C10_ConstantLimits ==
    /\ (call.fn = "build" /\ IsConstant(PlannedData))
           => /\ call.result = ConstantLimits(PlannedData[1])
              /\ axes[call.channel].ylim = ConstantLimits(PlannedData[1])
    /\ (call.fn = "patch" /\ call.planned /\ IsConstant(PlannedData))
           => /\ call.result = ConstantLimits(PlannedData[1])
              /\ axes[call.channel].ylim = ConstantLimits(PlannedData[1])
              /\ channel_states[call.channel].y_limits = ConstantLimits(PlannedData[1])
    /\ ReadChannel([xdim |-> 0, data |-> Hundred]).active
    /\ BuildYLimits(Hundred) = <<4 * Scale, 6 * Scale>>
    /\ calculate_optimal_y_limits(Hundred, DefaultChannelState) = <<4 * Scale, 6 * Scale>>

\* the planner ran on constant data of value 20, where 0.1 * |c| exceeds 1
C10_Witness ==
    /\ call.fn = "patch" /\ call.planned
    /\ PlannedData = <<20, 20>>
    /\ axes[call.channel].ylim = <<18 * Scale, 22 * Scale>>

----------------------------------------------------------------------------
(* Properties of the render surface *)

\* a step that ran create_display to its end
BuildStep == UserCreateDisplay \/ UserForceRebuild \/ UIRunRebuild

\* the slot of channel c holds a block with a nonzero count
SlotActive(c) == AnyNonZero(device[c].data)

\* one entity per active channel: an image for a slot with a row width, a line
\* for a slot without, nothing for the others, and the cached active set is the
\* union of the two key sets
BuiltForDevice ==
    /\ \A c \in Channels :
          /\ (SlotActive(c) /\ device[c].xdim > 0)
                 => c \in DOMAIN images /\ c \notin DOMAIN lines
          /\ (SlotActive(c) /\ device[c].xdim = 0)
                 => c \in DOMAIN lines /\ c \notin DOMAIN images
          /\ ~SlotActive(c) => c \notin DOMAIN lines /\ c \notin DOMAIN images
    /\ active_channels_cache = DOMAIN lines \cup DOMAIN images

\* C11: after every full rebuild there is exactly one render entity per active
\* channel and none for any other: an image and no line for an active channel
\* with xdim > 0, a line and no image for one with xdim = 0, and
\* active_channels_cache is the union of the two key sets
C11_OneEntityPerActiveChannel == [][BuildStep => BuiltForDevice']_vars

\* a surface built for a 2D channel 0 and a 1D channel 1
C11_Witness ==
    /\ device[0] = Map2D /\ device[1] = Flat
    /\ DOMAIN images = {0} /\ 1 \in DOMAIN lines
    /\ active_channels_cache = DOMAIN lines \cup {0}

\* the value of f at c, or "none" when f holds no c
At(f, c) == IF c \in DOMAIN f THEN <<f[c]>> ELSE <<>>

\* the channels of the batch at the head of the UI queue that have no render
\* entity: the entity was removed by a rebuild that ran first
StaleChannels == UpdatedChannels(Head(ui_queue).updates) \ Entities

\* C12: a patch for a channel that is in no render entity map when it runs
\* changes nothing for that channel (no entity, cache entry or ChannelState
\* created or modified) and raises nothing; a batch never changes the key sets of
\* the entity maps, so with a posted rebuild in either order the entity maps are
\* those of the rebuild's active channel set
C12_StalePatchIsNoOp ==
    [][/\ UIRunPatch =>
            /\ DOMAIN lines' = DOMAIN lines
            /\ DOMAIN images' = DOMAIN images
            /\ DOMAIN axes' = DOMAIN axes
            /\ \A c \in StaleChannels :
                  /\ At(channel_cache', c) = At(channel_cache, c)
                  /\ At(channel_states', c) = At(channel_states, c)
            /\ StaleChannels = UpdatedChannels(Head(ui_queue).updates)
                  => /\ ~call'.raised
                     /\ UNCHANGED surfaceVars
       /\ UIRunRebuild => Entities' = {c \in Channels : SlotActive(c)}]_vars

\* a batch ran after force_rebuild had removed the entity and the ChannelState
\* of one of its channels
C12_Witness ==
    /\ call.fn = "batch" /\ ~call.raised
    /\ \E c \in call.stale :
          ~SlotActive(c) /\ c \notin Entities /\ c \notin DOMAIN channel_states

----------------------------------------------------------------------------
(* Properties of the scheduler's lifecycle *)

\* C13: a loop that was running when stop_efficient_updates was called ends
\* with the cycle it was in at that moment: it is never found waiting for a
\* further cycle, whatever start calls follow
C13_StoppedLoopExits == \A th \in Live : th.stopped => th.pc = "poll"

\* a second stop changes nothing, and neither does a stop of a scheduler that
\* is not running
StopTwice ==
    /\ stop_efficient_updates(stop_efficient_updates(CurSched))
           = stop_efficient_updates(CurSched)
    /\ ~update_running => stop_efficient_updates(CurSched) = CurSched

\* the oldest posted callback can run: the guard of UIRunPatch or of
\* UIRunRebuild holds
HeadCanRun ==
    ui_queue # <<>> =>
        \/ Head(ui_queue).kind = "patch"
        \/ Head(ui_queue).kind = "rebuild" /\ CanRestart(CurSched)

\* C14: stop_efficient_updates is idempotent (a second call, or a call on a
\* scheduler that is not running, leaves the scheduler as it is), and it
\* retracts nothing: the callbacks posted before it are still queued and the
\* oldest of them can run
C14_StopIdempotent ==
    [][/\ StopTwice /\ StopTwice'
       /\ Stop => ui_queue' = ui_queue /\ HeadCanRun']_vars

\* the scheduler was stopped with callbacks pending
C14_Witness == ~update_running /\ update_stop_event /\ ui_queue # <<>>

\* a step that ran force_rebuild of the extended display to its end
ForceRebuildStep == UserForceRebuild \/ UIRunRebuild

\* C15: force_rebuild stops the scheduler if it was running (no loop waiting
\* before the call is still waiting after it, the loops in their body are told
\* to stop), empties channel_states and the caches, builds the surface from the
\* device with create_display, and on return the scheduler runs, with a fresh
\* loop and the stop event cleared, if and only if it ran before
C15_ForceRebuildFrame ==
    [][ForceRebuildStep =>
        /\ update_running' = update_running
        /\ channel_states' = EmptyMap
        /\ CurSurface' = Constructed(device)
        /\ BuiltForDevice'
        /\ update_running =>
              /\ ~update_stop_event'
              /\ threads' = Signal(threads) (+) One(NewThread)
        /\ ~update_running => UNCHANGED schedVars]_vars

\* force_rebuild ran on a running scheduler after a poll cycle had filled
\* channel_states
C15_Witness ==
    /\ cycle.polled /\ cycle.current_set # {}
    /\ channel_states = EmptyMap
    /\ update_running /\ ~update_stop_event
    /\ NewThread \in Live
    /\ BuiltForDevice /\ Entities # {}

----------------------------------------------------------------------------
(* Properties of update_plot *)

\* the call falls within update_interval of the last accepted update
RateLimited == now - last_update_time < UpdateInterval

\* the step is a call of update_plot with this force flag
PlotCall(force) == budget'.polls < budget.polls /\ call'.force = force

\* C16: update_plot(force=False, rebuild=False) called within update_interval
\* of the last accepted update returns without changing the display or the time
\* of the last accepted update (it returns before it reads the device); a call
\* with force=True is never suppressed and becomes the last accepted update
C16_RateLimit ==
    [][\A gui \in Gui :
          /\ (RateLimited /\ PlotCall(FALSE) /\ UpdatePlot(FALSE, FALSE, gui))
                 => /\ UNCHANGED <<surfaceVars, timeVars, device, schedVars, ui_queue>>
                    /\ call'.decision = "suppressed"
          /\ \A rebuild \in BOOLEAN :
                 (PlotCall(TRUE) /\ UpdatePlot(TRUE, rebuild, gui))
                    => call'.decision # "suppressed" /\ last_update_time' = now]_vars

\* a call was suppressed although the device shows another set of channels
\* than the display
C16_Witness ==
    /\ call.fn = "update_plot"
    /\ call.decision = "suppressed"
    /\ now > last_update_time
    /\ ActiveChannels(GetChannelData(device)) # active_channels_cache

\* what a poll cycle of the scheduler decides for the device as it is
PollDecision ==
    LET r == check_and_update_channels(channel_states, device)
    IN IF r.post_rebuild THEN "rebuild"
       ELSE IF r.updates # <<>> THEN "patch"
       ELSE "nothing"

\* what update_plot(force=True) decides for the device as it is
PlotDecision ==
    update_plot(CurSurface, device, TRUE, FALSE, now, last_update_time, "ok").decision

\* the scheduler and the display know the same channels and no callback is
\* pending
InSync == DOMAIN channel_states = active_channels_cache /\ ui_queue = <<>>

\* C17: update_plot(force=True) and a poll cycle of the scheduler take the same
\* decision; in particular one rebuilds exactly when the other does (a channel
\* was added or removed, or the shape of a channel changed)
C17_SameRebuildDecision ==
    InSync => (PollDecision = "rebuild" <=> PlotDecision = "rebuild")

----------------------------------------------------------------------------
(* Properties of the error handling *)

\* C18: when an incremental patch raises in the batched callback of the
\* scheduler, the exception is caught and the display is rebuilt in full: it
\* shows what create_display builds from the device
C18_RaisingPatchRebuilds ==
    [][(UIRunPatch /\ call'.raised) => CurSurface' = create_display(CurSurface, device)]_vars

\* C19: no exception escapes a callback posted to the UI thread, also when
\* create_display fails during the rebuild
C19_NoExceptionEscapes == call.fn \in {"batch", "posted_rebuild"} => ~call.escaped

\* force_rebuild ends with an exception of create_display
RebuildRaisesStep ==
    \E gui \in {"build", "tabs"} : UserForceRebuildRaises(gui) \/ UIRunRebuildRaises(gui)

\* C20: when create_display raises inside force_rebuild while the scheduler
\* was running, the scheduler is running afterwards
C20_SchedulerSurvivesFailedRebuild ==
    [][(RebuildRaisesStep /\ update_running) => update_running']_vars

----------------------------------------------------------------------------
(* Properties of failing poll cycles *)

\* the step is a poll cycle in which an exception was raised
PollRaised == budget'.polls < budget.polls /\ cycle'.raised

\* the thread th is back in wait() after a no-change cycle, with an interval
\* that did not shrink
BackedOff(th) ==
    \E th2 \in BagToSet(threads') :
        /\ th2.pc = "wait"
        /\ th2.no_change_count = th.no_change_count + 1
        /\ th2.current_interval >= th.current_interval

\* the force_rebuild callbacks in the queue q
Rebuilds(q) == {i \in 1..Len(q) : q[i].kind = "rebuild"}

Quiet ==
    LET r == check_and_update_channels(channel_states, device)
    IN r.states = channel_states /\ r.updates = <<>> /\ ~r.post_rebuild

\* C22: a poll cycle in which the device reads of channels that were active
\* before raise is a no-change cycle: no ChannelState is created, modified or
\* removed, nothing is posted, and changes_detected is false
C22_ReadErrorIsNoChange ==
    [][\A th \in BagToSet(threads) : \A failed \in FailedReads :
          (/\ budget'.polls < budget.polls
           /\ cycle'.failed = failed
           /\ failed \cap DOMAIN channel_states # {}
           /\ Quiet
           /\ LoopPollReadError(th, failed))
             => /\ channel_states' = channel_states
                /\ ui_queue' = ui_queue
                /\ ~cycle'.changes_detected]_vars

----------------------------------------------------------------------------
(* Properties of the two contexts *)

\* C23: the UI thread never waits on the background context: it is never
\* inside a blocking call while the loop thread is still in its cycle
C23_UINeverWaitsOnLoop == ~(UIBlocked /\ \E th \in Live : th.pc = "poll")

\* a step of the UI thread
UIStep == UIRunPatch \/ UIRunRebuild \/ UserForceRebuild \/ UserCreateDisplay

\* C24: the ChannelState map is written only by the polling loop and the
\* render maps only by the UI thread: a step of the UI thread leaves
\* channel_states as it is, a poll cycle leaves lines, axes, images and
\* channel_cache as they are
C24_OneWriterPerStructure ==
    [][/\ UIStep => channel_states' = channel_states
       /\ PollStep => UNCHANGED <<lines, axes, images, channel_cache>>]_vars

\* the number of loop threads that wait for their next cycle
WaitingLoops ==
    BagCardinality([th \in {x \in Live : x.pc = "wait"} |-> threads[th]])

\* C25: at most one polling loop is alive at any time; in particular two
\* loops never wait for their next cycle side by side
C25_AtMostOneLoop == WaitingLoops <= 1

----------------------------------------------------------------------------
(* Properties of the ChannelState map *)

\* C26: after every completed full rebuild and after every completed poll
\* cycle a ChannelState exists for exactly the channels that were active in
\* that rebuild or cycle
C26_StatesMatchActiveChannels ==
    [][/\ BuildStep => DOMAIN channel_states' = {c \in Channels : SlotActive(c)}
       /\ PollStep => DOMAIN channel_states' = cycle'.current_set]_vars

----------------------------------------------------------------------------
(* Properties of the running scheduler *)

\* the render entity of every active channel shows the block the device holds
Consistent ==
    \A c \in ActiveChannels(GetChannelData(device)) :
        LET reading == ReadChannel(device[c])
        IN IF reading.is2d
           THEN c \in DOMAIN images /\ images[c].data = reading.data
           ELSE c \in DOMAIN lines /\ lines[c] = Squeeze(reading).data

\* the scheduler runs and has nothing left to do: no callback is pending and
\* a further poll cycle finds no change and posts nothing; while the device
\* holds its blocks, polling and draining the queue change nothing any more
AtRest ==
    /\ update_running
    /\ ~update_stop_event
    /\ Live # {}
    /\ \A th \in Live : th.pc = "wait"
    /\ ui_queue = <<>>
    /\ Quiet

\* C27: when the scheduler keeps running, the UI queue keeps being drained and
\* the device stops changing, the display eventually shows the current data of
\* every active channel: the states in which the scheduler has come to rest
\* show the device
C27_RestIsConsistent == AtRest => Consistent

----------------------------------------------------------------------------
(* Properties of the configured change detector *)

\* the relative change of the range or of the mean exceeds pct percent
RelativeChangeExceeds(old_stats, new_stats, pct) ==
    \/ 100 * Abs((new_stats[2] - new_stats[1]) - (old_stats[2] - old_stats[1]))
          > pct * (old_stats[2] - old_stats[1])
    \/ 100 * Abs(new_stats[3] * old_stats[4] - old_stats[3] * new_stats[4])
          > pct * new_stats[4] * Abs(old_stats[3])

\* the last call classified a reading of the stored shape with another
\* fingerprint, against a signature with a range and a mean other than zero
SameShapeNewData ==
    /\ call.fn = "configured"
    /\ call.channel \in DOMAIN call.states_before
    /\ LET state == call.states_before[call.channel]
       IN /\ Squeeze(call.reading).shape = state.shape
          /\ Md5(Squeeze(call.reading).data) # state.data_hash
          /\ state.statistical_signature[1] # state.statistical_signature[2]
          /\ state.statistical_signature[3] # 0

\* C28: a reading of the cached shape with a new fingerprint is classified
\* SCALE_CHANGE exactly when the relative change of its range or mean against
\* the stored signature exceeds the configured change_threshold (held in
\* call.result[1]), and DATA_CHANGE otherwise
C28_ThresholdIsBoundary ==
    SameShapeNewData =>
        call.change = IF RelativeChangeExceeds(
                             call.states_before[call.channel].statistical_signature,
                             Stats(Squeeze(call.reading).data), call.result[1])
                      THEN "SCALE_CHANGE"
                      ELSE "DATA_CHANGE"

----------------------------------------------------------------------------
(* Properties of the adaptive interval *)

\* C29: the cycle that completes the stability_frames-th consecutive no-change
\* cycle grows current_interval by the factor 1.1, clamped to
\* max_update_interval, and so does every further consecutive no-change cycle
C29_GrowsFromNthNoChange ==
    [][(PollStep /\ ~cycle'.changes_detected) =>
          \A th \in Live : \A th2 \in BagToSet(threads') :
              (/\ th.pc = "poll" /\ th2.pc = "wait"
               /\ th.no_change_count + 1 >= StabilityFrames)
                 => th2.current_interval
                       = Min2(MaxInterval, (th.current_interval * 11) \div 10)]_vars

\* C30: a cycle in which a change is detected shrinks current_interval toward
\* min_update_interval: the new interval is max(min_update_interval, 0.9 * old),
\* never above the interval before the cycle and never below min_update_interval
C30_ChangeShrinksInterval ==
    [][(PollStep /\ cycle'.changes_detected) =>
          \A th \in Live : \A th2 \in BagToSet(threads') :
              (th.pc = "poll" /\ th2.pc = "wait")
                 => /\ th2.current_interval
                          = Max2(MinInterval, (th.current_interval * 9) \div 10)
                    /\ th2.current_interval <= th.current_interval
                    /\ th2.current_interval >= MinInterval]_vars

----------------------------------------------------------------------------
(* Properties of the 1D patch *)

\* the step polled channel c, classified it DATA_CHANGE and ran its patch
DataChangePatch(c) ==
    call'.fn = "patch" /\ call'.channel = c /\ call'.change = "DATA_CHANGE"

\* x_limits and y_limits of the ChannelState of channel c
StateLimits(states, c) ==
    IF c \in DOMAIN states THEN <<states[c].x_limits, states[c].y_limits>>
    ELSE <<DefaultChannelState.x_limits, DefaultChannelState.y_limits>>

\* C31: a 1D patch with classification DATA_CHANGE replaces only the line's data
\* and the cached copy of it; the axes' limits and the ChannelState's x_limits
\* and y_limits stay as they were, and the axis planner runs only for
\* SCALE_CHANGE or DIMENSION_CHANGE
C31_DataChangeKeepsLimits ==
    [][\A c \in Channels :
          /\ DataChangePatch(c) =>
                /\ axes' = axes
                /\ StateLimits(channel_states', c) = StateLimits(channel_states, c)
                /\ images' = images
                /\ active_channels_cache' = active_channels_cache
                /\ ~call'.planned
                /\ IF c \in DOMAIN lines /\ c \in DOMAIN axes
                   THEN /\ lines' = Put(lines, c, call'.reading.data)
                        /\ channel_cache' = Put(channel_cache, c, call'.reading.data)
                   ELSE lines' = lines /\ channel_cache' = channel_cache
          /\ (call'.fn = "patch" /\ call'.planned)
                => call'.change \in {"SCALE_CHANGE", "DIMENSION_CHANGE"}]_vars

\* a DATA_CHANGE patch drew new data on a line whose axis keeps limits the
\* planner would have moved
C31_Witness ==
    /\ call.fn = "patch" /\ call.change = "DATA_CHANGE"
    /\ call.channel \in DOMAIN lines \cap DOMAIN channel_states
    /\ lines[call.channel] = call.reading.data
    /\ calculate_optimal_y_limits(call.reading.data, channel_states[call.channel])
           # axes[call.channel].ylim

----------------------------------------------------------------------------
(* Properties of the batched patch *)

\* the surface after the patch of the entry u of the batch alone
PatchedAlone(u, batch) ==
    IF u.is_2d
    THEN update_2d_channel_efficient(CurSurface, u.channel, u.change_type, device)
    ELSE update_1d_channel_efficient(CurSurface, u.channel, u.change_type,
                                     batch.channel_data[u.channel]).st

\* all the surface holds for channel c
ChannelView(st, c) ==
    <<At(st.lines, c), At(st.axes, c), At(st.images, c), At(st.channel_cache, c),
      At(st.channel_states, c)>>

\* the patch batches among the callbacks q
Batches(q) == {i \in 1..Len(q) : q[i].kind = "patch"}

\* the callbacks the step appended to the UI queue
Appended == SubSeq(ui_queue', Len(ui_queue) + 1, Len(ui_queue'))

\* C32: a poll cycle with at least one channel that is not NO_CHANGE posts
\* exactly one batch, for the channels it classified as changed; when the batch
\* runs, every channel of it is patched as its own patch would patch it (a
\* failing patch of one channel does not keep the others from theirs), and the
\* redraw is requested
C32_BatchPatchesEveryChannel ==
    [][/\ (PollStep /\ cycle'.polled /\ cycle'.patch_channels # {})
             => /\ Cardinality(Batches(Appended)) = 1
                /\ \A i \in Batches(Appended) :
                      UpdatedChannels(Appended[i].updates) = cycle'.patch_channels
       /\ UIRunPatch
             => /\ \A i \in 1..Len(Head(ui_queue).updates) :
                      LET u == Head(ui_queue).updates[i]
                      IN ChannelView(CurSurface', u.channel)
                             = ChannelView(PatchedAlone(u, Head(ui_queue)), u.channel)
                /\ ~call'.raised]_vars

----------------------------------------------------------------------------
(* Properties of the limits a rebuild applies *)

\* C33: for 1D data that is not constant the y-limits a full rebuild applies
\* are the limits of the axis planner for a fresh channel,
\* (data_min - margin, data_max + margin), with the same margin below and above
C33_RebuildUsesPlannerLimits ==
    (call.fn = "build" /\ ~IsConstant(PlannedData))
        => /\ axes[call.channel].ylim
                  = calculate_optimal_y_limits(PlannedData, DefaultChannelState)
           /\ Scale * SeqMin(PlannedData) - axes[call.channel].ylim[1]
                  = axes[call.channel].ylim[2] - Scale * SeqMax(PlannedData)

----------------------------------------------------------------------------
(* Properties of the readings *)

\* C34: a slot with a nonzero sample, range R >= 1 and row width W is read as
\* an active 1D channel of length R if W = 0 and as an active 2D channel of
\* shape (R / W, W) if W > 0, also when W does not divide R or exceeds it
C34_ReadingShape ==
    (call.fn = "read" /\ AnyNonZero(device[call.channel].data))
        => LET R == Len(device[call.channel].data)
               W == device[call.channel].xdim
           IN /\ call.reading.active
              /\ call.reading.data = device[call.channel].data
              /\ IF W = 0
                 THEN ~call.reading.is2d /\ call.reading.shape = <<R>>
                 ELSE call.reading.is2d /\ call.reading.shape = <<R \div W, W>>

----------------------------------------------------------------------------
(* Properties of a quiet poll cycle *)

\* the step ran a poll cycle that found the active set equal to the key set of
\* the ChannelState map and classified every active channel NO_CHANGE
QuietCycle ==
    /\ PollStep
    /\ cycle'.polled
    /\ cycle'.current_set = cycle'.keys_before
    /\ \A c \in cycle'.current_set : cycle'.changes[c] = "NO_CHANGE"

\* C35: a poll cycle in which the active channel set is unchanged and every
\* active channel classifies as NO_CHANGE posts nothing to the UI thread and
\* leaves every ChannelState and every render entity unchanged
C35_QuietCycleChangesNothing ==
    [][QuietCycle => /\ ui_queue' = ui_queue
                     /\ channel_states' = channel_states
                     /\ lines' = lines
                     /\ images' = images
                     /\ axes' = axes
                     /\ channel_cache' = channel_cache
                     /\ ~cycle'.changes_detected]_vars

\* a cycle found a 1D and a 2D channel active, both with a state, both
\* NO_CHANGE, while a batch was still pending
C35_Witness ==
    /\ cycle.polled
    /\ ~cycle.changes_detected
    /\ cycle.current_set = cycle.keys_before
    /\ cycle.current_set = DOMAIN channel_states
    /\ \E c \in cycle.current_set : ReadChannel(device[c]).is2d
    /\ \E c \in cycle.current_set : ~ReadChannel(device[c]).is2d
    /\ \A c \in cycle.current_set : cycle.changes[c] = "NO_CHANGE"
    /\ ui_queue # <<>>

----------------------------------------------------------------------------
(* Properties of the posted rebuilds *)

\* C36: at most one force_rebuild posted by the scheduler is pending in the UI
\* queue at any time; while it has not run, further poll cycles that find the
\* same channel-set change post no other
C36_OneRebuildPending == Cardinality(Rebuilds(ui_queue)) <= 1

\* a poll cycle on the states and the device dev would change no ChannelState
\* and post nothing
QuietOn(states, dev) ==
    LET r == check_and_update_channels(states, dev)
    IN r.states = states /\ r.updates = <<>> /\ ~r.post_rebuild

\* the step ran a posted force_rebuild inside the cycle of a loop thread
RebuildRunsInCycle ==
    /\ PollStep
    /\ ui_queue # <<>>
    /\ Head(ui_queue).kind = "rebuild"
    /\ \E th \in BagToSet(threads) : \E k \in 1..(Cardinality(Channels) - 1) :
           LoopPollAcrossRebuild(th, k)

\* the step ran a posted force_rebuild
RebuildRuns == UIRunRebuild \/ RebuildRunsInCycle

\* the callbacks the step left in the UI queue behind those that were pending
PostedBehind == SubSeq(ui_queue', Len(ui_queue), Len(ui_queue'))

\* C37: rebuilds do not feed back into further rebuilds.  With the device
\* unchanged, the step that executes a force_rebuild posts no force_rebuild and
\* at most the batch that patches the rebuilt channels again; a poll cycle that
\* starts without a stale ChannelState posts no force_rebuild and at most one
\* batch, and after it a further cycle finds nothing to post; and that quiet
\* state lasts as long as the device does not change and no rebuild posted
\* earlier runs
C37_RebuildsDoNotFeedBack ==
    [][/\ RebuildRuns
             => /\ Rebuilds(PostedBehind) = {}
                /\ Len(PostedBehind) <= 1
       /\ (PollStep /\ ~RebuildRunsInCycle /\ cycle'.polled
               /\ cycle'.keys_before \subseteq cycle'.current_set)
             => /\ ~cycle'.posted_rebuild
                /\ Len(Appended) <= 1
                /\ QuietOn(channel_states', device')
       /\ (Quiet /\ device' = device /\ ~RebuildRuns)
             => QuietOn(channel_states', device')]_vars

====
